---- MODULE Spec2Model ----
(***************************************************************************)
(* A model of the HPROF heap dump parser (class HprofParser) of the Java   *)
(* heap dump analyser: the header reader, the top-level record loop, the   *)
(* heap sub-record loop and the identifier / typed-value readers, run over *)
(* byte buffers.  Offsets are 0-based as in the DataView API; a sequence   *)
(* element d[p + 1] is the byte at offset p.                               *)
(*                                                                         *)
(* Numbers: a JavaScript number that can exceed 32 bits (identifiers, the  *)
(* header timestamp) is kept as a pair <<high, low>> of 32-bit words with  *)
(* the value high * 2^32 + low, rounded as an IEEE double rounds it.       *)
(* The input buffers are such that every 32-bit word the parser reads from *)
(* them is below 2^31.                                                     *)
(***************************************************************************)
EXTENDS Integers, Sequences, FiniteSets, TLC

\* ---------------------------------------------------------------------------
\* Bounds of the input buffers
\* ---------------------------------------------------------------------------

\* Number of freely chosen records / sub-records that follow the preamble.
MaxItems == 2

\* ---------------------------------------------------------------------------
\* Program constants
\* ---------------------------------------------------------------------------

TAG_STRING == 1
TAG_LOAD_CLASS == 2
TAG_HEAP_DUMP == 12
TAG_HEAP_DUMP_SEGMENT == 28

SUB_ROOT_UNKNOWN == 255
SUB_ROOT_JNI_GLOBAL == 1
SUB_ROOT_JNI_LOCAL == 2
SUB_ROOT_JAVA_FRAME == 3
SUB_ROOT_NATIVE_STACK == 4
SUB_ROOT_STICKY_CLASS == 5
SUB_ROOT_THREAD_BLOCK == 6
SUB_ROOT_MONITOR_USED == 7
SUB_ROOT_THREAD_OBJ == 8
SUB_CLASS_DUMP == 32
SUB_INSTANCE_DUMP == 33
SUB_OBJECT_ARRAY_DUMP == 34
SUB_PRIMITIVE_ARRAY_DUMP == 35

\* 'JAVA PROFILE 1.0' as char codes
MAGIC == <<74, 65, 86, 65, 32, 80, 82, 79, 70, 73, 76, 69, 32, 49, 46, 48>>

\* 'Class#' as char codes
CLASS_HASH == <<67, 108, 97, 115, 115, 35>>

\* BASIC_TYPES: type tag -> byte size; 0 stands for "no entry" (undefined)
BASIC_TYPES(type) ==
  CASE type = 2 -> 1
    [] type = 4 -> 1
    [] type = 5 -> 2
    [] type = 6 -> 4
    [] type = 7 -> 8
    [] type = 8 -> 1
    [] type = 9 -> 2
    [] type = 10 -> 4
    [] type = 11 -> 8
    [] OTHER -> 0

\* ---------------------------------------------------------------------------
\* JavaScript values
\* ---------------------------------------------------------------------------

\* An absent property (undefined) and a present one
Undef == <<>>
Some(v) == <<v>>

\* Number of bits of a word below 2^31
RECURSIVE BitLen(_)
BitLen(n) == IF n = 0 THEN 0 ELSE 1 + BitLen(n \div 2)

\* high * 0x100000000 + low in double arithmetic: exact below 2^53, otherwise
\* rounded to 53 significant bits, ties to even.
JsCombine(high, low) ==
  IF high < 2^21 THEN <<high, low>>
  ELSE LET drop == BitLen(high) - 21
           unit == 2^drop
           q == low \div unit
           r == low % unit
           up == IF r * 2 > unit \/ (r * 2 = unit /\ q % 2 = 1) THEN 1 ELSE 0
           carry == (q + up) \div (2^(31 - drop)) = 2
       IN IF carry THEN <<high + 1, 0>> ELSE <<high, (q + up) * unit>>

\* Number -> decimal digits (as char codes), by long division of the four
\* 16-bit limbs of the pair; exact for every integer below 2^53.
Limbs(n) == <<n[1] \div 65536, n[1] % 65536, n[2] \div 65536, n[2] % 65536>>

RECURSIVE DivLimbs(_, _, _)
DivLimbs(limbs, i, rem) ==
  IF i > Len(limbs) THEN <<rem>>
  ELSE LET cur == rem * 65536 + limbs[i]
       IN <<cur \div 10>> \o DivLimbs(limbs, i + 1, cur % 10)

RECURSIVE LimbDigits(_)
LimbDigits(limbs) ==
  IF \A i \in 1..Len(limbs) : limbs[i] = 0 THEN <<>>
  ELSE LET qr == DivLimbs(limbs, 1, 0)
       IN LimbDigits(SubSeq(qr, 1, 4)) \o <<48 + qr[5]>>

NumberToString(n) ==
  IF n = <<0, 0>> THEN <<48>> ELSE LimbDigits(Limbs(n))

\* TextDecoder('utf-8').decode: the WHATWG UTF-8 decoder, one code point per
\* element, U+FFFD for each malformed sequence, a leading BOM dropped.
RECURSIVE Utf8(_, _, _, _, _, _, _)
Utf8(b, i, need, seen, cp, lo, hi) ==
  IF i > Len(b) THEN (IF need # 0 THEN <<65533>> ELSE <<>>)
  ELSE LET x == b[i] IN
    IF need = 0 THEN
      IF x <= 127 THEN <<x>> \o Utf8(b, i + 1, 0, 0, 0, 128, 191)
      ELSE IF x \in 194..223 THEN Utf8(b, i + 1, 1, 0, x % 32, 128, 191)
      ELSE IF x \in 224..239 THEN
        Utf8(b, i + 1, 2, 0, x % 16,
             IF x = 224 THEN 160 ELSE 128, IF x = 237 THEN 159 ELSE 191)
      ELSE IF x \in 240..244 THEN
        Utf8(b, i + 1, 3, 0, x % 8,
             IF x = 240 THEN 144 ELSE 128, IF x = 244 THEN 143 ELSE 191)
      ELSE <<65533>> \o Utf8(b, i + 1, 0, 0, 0, 128, 191)
    ELSE IF x < lo \/ x > hi THEN <<65533>> \o Utf8(b, i, 0, 0, 0, 128, 191)
    ELSE IF seen + 1 = need THEN
      <<cp * 64 + (x % 64)>> \o Utf8(b, i + 1, 0, 0, 0, 128, 191)
    ELSE Utf8(b, i + 1, need, seen + 1, cp * 64 + (x % 64), 128, 191)

TextDecode(bytes) ==
  LET s == Utf8(bytes, 1, 0, 0, 0, 128, 191)
  IN IF Len(s) >= 1 /\ s[1] = 65279 THEN Tail(s) ELSE s

\* String.prototype.startsWith
StartsWith(s, prefix) ==
  Len(s) >= Len(prefix) /\ SubSeq(s, 1, Len(prefix)) = prefix

\* A JavaScript Map: a sequence of <<key, value>> entries in insertion order.
\* set() on a present key replaces the value in place.
MapHas(m, k) == \E i \in 1..Len(m) : m[i][1] = k
MapGet(m, k) == m[CHOOSE i \in 1..Len(m) : m[i][1] = k][2]
MapSet(m, k, v) ==
  IF MapHas(m, k)
  THEN [i \in 1..Len(m) |-> IF m[i][1] = k THEN <<k, v>> ELSE m[i]]
  ELSE Append(m, <<k, v>>)
MapKeys(m) == {m[i][1] : i \in 1..Len(m)}

\* ---------------------------------------------------------------------------
\* DataView reads.  A cursor is [pos, ok, ids, vals]: the read position, FALSE
\* in ok once a read has thrown, the <<before, after>> positions of the readId
\* calls that returned, and the values read so far, in order.  A read applied
\* to a cursor that has thrown leaves it as it is (the exception propagates).
\* ---------------------------------------------------------------------------

InRange(d, p, n) == p >= 0 /\ p + n <= Len(d)

Uint8(d, p) == d[p + 1]
Uint16(d, p) == d[p + 1] * 256 + d[p + 2]
Uint32(d, p) == ((d[p + 1] * 256 + d[p + 2]) * 256 + d[p + 3]) * 256 + d[p + 4]

\* getInt8 / getInt16: the two's complement reading of an unsigned value
Signed(v, bits) == IF v >= 2^(bits - 1) THEN v - 2^bits ELSE v

Cursor(p) == [pos |-> p, ok |-> TRUE, ids |-> <<>>, vals |-> <<>>]

Throw(c) == [c EXCEPT !.ok = FALSE]

\* this.position += n
Skip(c, n) == IF c.ok THEN [c EXCEPT !.pos = @ + n] ELSE c

\* A read of n bytes at the cursor that yields v: get...(this.position), then
\* this.position += n
Take(d, c, n, v) ==
  IF InRange(d, c.pos, n)
  THEN [c EXCEPT !.pos = @ + n, !.vals = Append(@, v)]
  ELSE Throw(c)

\* this.data.getUint8(this.position++): the increment precedes the range check
ReadUint8(d, c) ==
  IF ~c.ok THEN c
  ELSE IF InRange(d, c.pos, 1)
       THEN [c EXCEPT !.pos = @ + 1, !.vals = Append(@, Uint8(d, c.pos))]
       ELSE [c EXCEPT !.pos = @ + 1, !.ok = FALSE]

ReadUint16(d, c) == IF ~c.ok THEN c ELSE Take(d, c, 2, Uint16(d, c.pos))

ReadUint32(d, c) == IF ~c.ok THEN c ELSE Take(d, c, 4, Uint32(d, c.pos))

\* A readId that takes 8 bytes under either identifier size
IdWidthAlwaysEight(w) == IF w \in {4, 8} THEN 8 ELSE 0

\* readId(): the value and the number of bytes by identifierSize; 0 bytes
\* stands for the throw on any other size
IdWidth(w) == IF w = 4 THEN 4 ELSE IF w = 8 THEN 8 ELSE 0

IdValue(d, w, p) ==
  IF w = 4 THEN <<0, Uint32(d, p)>> ELSE JsCombine(Uint32(d, p), Uint32(d, p + 4))

ReadId(d, w, c) ==
  IF ~c.ok THEN c
  ELSE IF IdWidth(w) = 0 \/ ~InRange(d, c.pos, IdWidth(w)) THEN Throw(c)
  ELSE [c EXCEPT !.pos = @ + IdWidth(w),
                 !.vals = Append(@, IdValue(d, w, c.pos)),
                 !.ids = Append(@, <<c.pos, c.pos + IdWidth(w)>>)]

\* readValue(type): the decoded value; float and double values are kept as
\* their raw words, an unknown type throws.  A 32-bit word of an input buffer
\* is below 2^31, where getInt32 and getUint32 agree.
ReadValue(d, w, type, c) ==
  IF ~c.ok THEN c
  ELSE CASE type = 2 -> ReadId(d, w, c)
         [] type = 4 -> Take(d, c, 1, Uint8(d, c.pos) # 0)
         [] type = 5 -> Take(d, c, 2, Uint16(d, c.pos))
         [] type = 6 -> Take(d, c, 4, <<Uint32(d, c.pos)>>)
         [] type = 7 -> Take(d, c, 8, <<Uint32(d, c.pos), Uint32(d, c.pos + 4)>>)
         [] type = 8 -> Take(d, c, 1, Signed(Uint8(d, c.pos), 8))
         [] type = 9 -> Take(d, c, 2, Signed(Uint16(d, c.pos), 16))
         [] type = 10 -> Take(d, c, 4, Uint32(d, c.pos))
         [] type = 11 -> Take(d, c, 8, JsCombine(Uint32(d, c.pos), Uint32(d, c.pos + 4)))
         [] OTHER -> Throw(c)

\* skipValue(): reads a type byte itself, then skips BASIC_TYPES[type] ||
\* identifierSize bytes without a range check
SkipSize(w, type) == IF BASIC_TYPES(type) # 0 THEN BASIC_TYPES(type) ELSE w

SkipValue(d, w, c) ==
  IF ~c.ok \/ ~InRange(d, c.pos, 1) THEN ReadUint8(d, c)
  ELSE Skip(c, 1 + SkipSize(w, Uint8(d, c.pos)))

\* A run of fixed-width reads, as the handlers make them one after another:
\* layout lists the kind of each read
ReadField(d, w, c, kind) ==
  CASE kind = "id" -> ReadId(d, w, c)
    [] kind = "u32" -> ReadUint32(d, c)
    [] kind = "u16" -> ReadUint16(d, c)
    [] kind = "u8" -> ReadUint8(d, c)

RECURSIVE ReadFields(_, _, _, _, _)
ReadFields(d, w, c, layout, i) ==
  IF i > Len(layout) THEN c
  ELSE ReadFields(d, w, ReadField(d, w, c, layout[i]), layout, i + 1)

\* ---------------------------------------------------------------------------
\* The heap model under construction: m = [strings, classes, instances, roots]
\* (the parser's four tables).  A handler takes the position of its first read
\* and the model, and yields [c, m]: the final cursor (ok = FALSE when it
\* threw) and the model as the handler left it.
\* ---------------------------------------------------------------------------

EmptyModel == [strings |-> <<>>, classes |-> <<>>, instances |-> <<>>, roots |-> <<>>]

\* this.strings.get(classNameId) || `Class#${classNameId}`
ResolveName(strs, classNameId) ==
  IF MapHas(strs, classNameId) /\ MapGet(strs, classNameId) # <<>>
  THEN MapGet(strs, classNameId)
  ELSE CLASS_HASH \o NumberToString(classNameId)

\* parseString(endPosition): the byte loop; reading up to an endPosition past
\* the buffer throws
ReadBytesUntil(d, c, endPos) ==
  IF ~c.ok \/ c.pos >= endPos THEN
    (IF c.ok THEN [c EXCEPT !.vals = Append(@, <<>>)] ELSE c)
  ELSE IF endPos <= Len(d)
       THEN [c EXCEPT !.pos = endPos, !.vals = Append(@, SubSeq(d, c.pos + 1, endPos))]
       ELSE [c EXCEPT !.pos = Len(d) + 1, !.ok = FALSE]

ParseString(d, w, p, endPos, m) ==
  LET r == ReadBytesUntil(d, ReadId(d, w, Cursor(p)), endPos)
  IN [c |-> r,
      m |-> IF ~r.ok THEN m
            ELSE [m EXCEPT !.strings = MapSet(@, r.vals[1], TextDecode(r.vals[2]))]]

\* The class record that parseLoadClass stores
LoadedClass(serialNum, classObjectId, stackTraceSerial, classNameId, name) ==
  [serialNum |-> Some(serialNum), classObjectId |-> classObjectId,
   stackTraceSerial |-> Some(stackTraceSerial), classNameId |-> Some(classNameId),
   name |-> name, instances |-> <<>>,
   staticFields |-> Some(<<>>), instanceFields |-> Some(<<>>),
   superClassObjectId |-> Undef, classLoaderObjectId |-> Undef,
   instanceSize |-> Undef]

\* parseLoadClass(): this.classes.set(classObjectId, {...})
StoreLoadedClass(cls, classObjectId, rec) == MapSet(cls, classObjectId, rec)

ParseLoadClass(d, w, p, m) ==
  LET r == ReadFields(d, w, Cursor(p), <<"u32", "id", "u32", "id">>, 1)
  IN [c |-> r,
      m |-> IF ~r.ok THEN m
            ELSE [m EXCEPT !.classes =
                    StoreLoadedClass(@, r.vals[2],
                      LoadedClass(r.vals[1], r.vals[2], r.vals[3], r.vals[4],
                                  ResolveName(m.strings, r.vals[4])))]]

\* The root entries pushed by parseRoot, parseRootJniGlobal, parseRootWithThread
Root(type, objectId, jniGlobalRefId, threadSerial, frameNum) ==
  [type |-> type, objectId |-> objectId, jniGlobalRefId |-> jniGlobalRefId,
   threadSerial |-> threadSerial, frameNum |-> frameNum]

\* A push that skips an object id the list already holds
PushRootOnce(rts, root) ==
  IF \E i \in 1..Len(rts) : rts[i].objectId = root.objectId THEN rts ELSE Append(rts, root)

\* this.roots.push(root)
PushRoot(rts, root) == Append(rts, root)

\* parseRoot(subTag)
ParseRoot(d, w, p, m, subTag) ==
  LET r == ReadId(d, w, Cursor(p))
  IN [c |-> r,
      m |-> IF ~r.ok THEN m
            ELSE [m EXCEPT !.roots =
                    PushRoot(@, Root(subTag, r.vals[1], Undef, Undef, Undef))]]

\* parseRootJniGlobal()
ParseRootJniGlobal(d, w, p, m) ==
  LET r == ReadFields(d, w, Cursor(p), <<"id", "id">>, 1)
  IN [c |-> r,
      m |-> IF ~r.ok THEN m
            ELSE [m EXCEPT !.roots =
                    PushRoot(@, Root(SUB_ROOT_JNI_GLOBAL, r.vals[1], Some(r.vals[2]),
                                     Undef, Undef))]]

\* parseRootWithThread(subTag)
ParseRootWithThread(d, w, p, m, subTag) ==
  LET r == ReadFields(d, w, Cursor(p), <<"id", "u32", "u32">>, 1)
  IN [c |-> r,
      m |-> IF ~r.ok THEN m
            ELSE [m EXCEPT !.roots =
                    PushRoot(@, Root(subTag, r.vals[1], Undef, Some(r.vals[2]),
                                     Some(r.vals[3])))]]

\* parseClassDump(): the constant pool loop; each entry skips 2 + 1 bytes and
\* then calls skipValue()
RECURSIVE SkipConstantPool(_, _, _, _)
SkipConstantPool(d, w, c, n) ==
  IF n = 0 \/ ~c.ok THEN c
  ELSE SkipConstantPool(d, w, SkipValue(d, w, Skip(Skip(c, 2), 1)), n - 1)

\* parseClassDump(): the constant pool, from its 2-byte count on
SkipConstantPoolTable(d, w, c) ==
  LET n == ReadUint16(d, c)
  IN IF ~n.ok THEN n ELSE SkipConstantPool(d, w, n, n.vals[Len(n.vals)])

\* parseClassDump(): the static field loop; each entry reads nameId, type and
\* the value of that type
ReadStaticField(d, w, c) ==
  LET t == ReadUint8(d, ReadId(d, w, c))
  IN IF ~t.ok THEN t ELSE ReadValue(d, w, t.vals[Len(t.vals)], t)

RECURSIVE ReadStaticFields(_, _, _, _)
ReadStaticFields(d, w, c, n) ==
  IF n = 0 \/ ~c.ok THEN c
  ELSE ReadStaticFields(d, w, ReadStaticField(d, w, c), n - 1)

ReadStaticFieldTable(d, w, c) ==
  LET n == ReadUint16(d, c)
  IN IF ~n.ok THEN n ELSE ReadStaticFields(d, w, n, n.vals[Len(n.vals)])

\* staticFields[nameId] = { type, value }, for the n entries read from vals[from]
RECURSIVE StaticFieldsOf(_, _, _, _)
StaticFieldsOf(vals, from, n, acc) ==
  IF n = 0 THEN acc
  ELSE StaticFieldsOf(vals, from + 3, n - 1,
         MapSet(acc, vals[from], [type |-> vals[from + 1], value |-> vals[from + 2]]))

\* parseClassDump(): the instance field loop; each entry reads nameId and type
RECURSIVE ReadInstanceFields(_, _, _, _)
ReadInstanceFields(d, w, c, n) ==
  IF n = 0 \/ ~c.ok THEN c
  ELSE ReadInstanceFields(d, w, ReadUint8(d, ReadId(d, w, c)), n - 1)

ReadInstanceFieldTable(d, w, c) ==
  LET n == ReadUint16(d, c)
  IN IF ~n.ok THEN n ELSE ReadInstanceFields(d, w, n, n.vals[Len(n.vals)])

\* instanceFields.push({ nameId, type }), for the n entries read from vals[from]
InstanceFieldsOf(vals, from, n) ==
  [i \in 1..n |-> [nameId |-> vals[from + 2 * (i - 1)],
                   type |-> vals[from + 2 * (i - 1) + 1]]]

\* The class record parseClassDump creates when the class id is unknown
DumpedClassPlaceholder(classObjectId) ==
  [serialNum |-> Undef, classObjectId |-> classObjectId,
   stackTraceSerial |-> Undef, classNameId |-> Undef,
   name |-> CLASS_HASH \o NumberToString(classObjectId), instances |-> <<>>,
   staticFields |-> Undef, instanceFields |-> Undef,
   superClassObjectId |-> Undef, classLoaderObjectId |-> Undef,
   instanceSize |-> Undef]

\* A parseClassDump that starts from a new record whatever the table holds
ClassInfoFresh(cls, classObjectId) == DumpedClassPlaceholder(classObjectId)

\* let classInfo = this.classes.get(classObjectId); if (!classInfo) {...}
ClassInfoFor(cls, classObjectId) ==
  IF MapHas(cls, classObjectId) THEN MapGet(cls, classObjectId)
  ELSE DumpedClassPlaceholder(classObjectId)

\* Object.assign(classInfo, {stackTraceSerial, superClassObjectId, ...})
AssignClassDump(classInfo, stackTraceSerial, superClassObjectId, classLoaderObjectId, instanceSize, staticFields, instanceFields) ==
  [classInfo EXCEPT !.stackTraceSerial = Some(stackTraceSerial),
                    !.superClassObjectId = Some(superClassObjectId),
                    !.classLoaderObjectId = Some(classLoaderObjectId),
                    !.instanceSize = Some(instanceSize),
                    !.staticFields = Some(staticFields),
                    !.instanceFields = Some(instanceFields)]

\* parseClassDump().  The values read are: class id, stack trace serial,
\* super class id, class loader id, four ids that are dropped, instance size,
\* constant pool count, static field count, the static fields, instance field
\* count, the instance fields.
\* A fixed part whose last reserved field is a 32-bit word
ClassDumpLayoutNarrowReserved ==
  <<"id", "u32", "id", "id", "id", "id", "id", "u32", "u32">>

ClassDumpLayout == <<"id", "u32", "id", "id", "id", "id", "id", "id", "u32">>

ParseClassDump(d, w, p, m) ==
  LET r == ReadInstanceFieldTable(d, w,
             ReadStaticFieldTable(d, w,
               SkipConstantPoolTable(d, w,
                 ReadFields(d, w, Cursor(p), ClassDumpLayout, 1))))
      v == r.vals
      nStatic == v[11]
      nInstance == v[12 + 3 * nStatic]
  IN [c |-> r,
      m |-> IF ~r.ok THEN m
            ELSE [m EXCEPT !.classes =
                    MapSet(@, v[1],
                      AssignClassDump(ClassInfoFor(m.classes, v[1]), v[2], v[3], v[4], v[9],
                        StaticFieldsOf(v, 12, nStatic, <<>>),
                        InstanceFieldsOf(v, 13 + 3 * nStatic, nInstance)))]]

\* The entries of the instance table
Instance(objectId, classObjectId, stackTraceSerial, size, bytes) ==
  [objectId |-> objectId, classObjectId |-> Some(classObjectId),
   stackTraceSerial |-> stackTraceSerial, type |-> Undef, size |-> size,
   data |-> Some(bytes), elements |-> Undef, elementType |-> Undef, length |-> Undef]

\* An object array entry whose size is its number of elements
ObjectArrayCounted(objectId, classObjectId, stackTraceSerial, size, elements) ==
  [objectId |-> objectId, classObjectId |-> Some(classObjectId),
   stackTraceSerial |-> stackTraceSerial, type |-> Some("objectArray"),
   size |-> Len(elements), data |-> Undef, elements |-> Some(elements),
   elementType |-> Undef, length |-> Undef]

\* this.instances.set(arrayObjectId, {...}) of parseObjectArrayDump
ObjectArray(objectId, classObjectId, stackTraceSerial, size, elements) ==
  [objectId |-> objectId, classObjectId |-> Some(classObjectId),
   stackTraceSerial |-> stackTraceSerial, type |-> Some("objectArray"), size |-> size,
   data |-> Undef, elements |-> Some(elements), elementType |-> Undef, length |-> Undef]

PrimitiveArray(objectId, stackTraceSerial, elementType, size, length) ==
  [objectId |-> objectId, classObjectId |-> Undef,
   stackTraceSerial |-> stackTraceSerial, type |-> Some("primitiveArray"), size |-> size,
   data |-> Undef, elements |-> Undef, elementType |-> Some(elementType),
   length |-> Some(length)]

\* A parseInstanceDump that creates the class record it does not find
AddToClassInstancesCreating(cls, classObjectId, objectId) ==
  MapSet(cls, classObjectId,
         [ClassInfoFor(cls, classObjectId) EXCEPT !.instances = Append(@, objectId)])

\* parseInstanceDump(): classInfo.instances.push(objectId) when the class is known
AddToClassInstances(cls, classObjectId, objectId) ==
  IF MapHas(cls, classObjectId)
  THEN MapSet(cls, classObjectId,
              [MapGet(cls, classObjectId) EXCEPT !.instances = Append(@, objectId)])
  ELSE cls

\* new Uint8Array(this.data.buffer, this.position, numBytes); this.position +=
\* numBytes: a view that runs past the end of the buffer throws a RangeError
ViewBytes(d, c) ==
  LET numBytes == c.vals[Len(c.vals)]
  IN IF ~c.ok THEN c
     ELSE IF c.pos + numBytes > Len(d) THEN Throw(c)
     ELSE [c EXCEPT !.pos = @ + numBytes,
                    !.vals = Append(@, SubSeq(d, c.pos + 1, c.pos + numBytes))]

\* parseInstanceDump(): object id, stack trace serial, class id, byte count,
\* the bytes
ParseInstanceDump(d, w, p, m) ==
  LET r == ViewBytes(d, ReadFields(d, w, Cursor(p), <<"id", "u32", "id", "u32">>, 1))
      v == r.vals
  IN [c |-> r,
      m |-> IF ~r.ok THEN m
            ELSE [m EXCEPT
                    !.instances = MapSet(@, v[1], Instance(v[1], v[3], v[2], v[4], v[5])),
                    !.classes = AddToClassInstances(@, v[3], v[1])]]

\* parseObjectArrayDump(): the element loop
RECURSIVE ReadElements(_, _, _, _)
ReadElements(d, w, c, n) ==
  IF n = 0 \/ ~c.ok THEN c ELSE ReadElements(d, w, ReadId(d, w, c), n - 1)

\* parseObjectArrayDump(): array id, stack trace serial, element count, array
\* class id, the elements
ParseObjectArrayDump(d, w, p, m) ==
  LET h == ReadFields(d, w, Cursor(p), <<"id", "u32", "u32", "id">>, 1)
      r == IF ~h.ok THEN h ELSE ReadElements(d, w, h, h.vals[3])
      v == r.vals
  IN [c |-> r,
      m |-> IF ~r.ok THEN m
            ELSE [m EXCEPT !.instances =
                    MapSet(@, v[1],
                      ObjectArray(v[1], v[4], v[2], v[3] * w, SubSeq(v, 5, 4 + v[3])))]]

\* parsePrimitiveArrayDump(): BASIC_TYPES[elementType] || 1
ElementSize(elementType) ==
  IF BASIC_TYPES(elementType) # 0 THEN BASIC_TYPES(elementType) ELSE 1

\* parsePrimitiveArrayDump(): array id, stack trace serial, element count,
\* element type; the data are skipped without a range check
ParsePrimitiveArrayDump(d, w, p, m) ==
  LET h == ReadFields(d, w, Cursor(p), <<"id", "u32", "u32", "u8">>, 1)
      totalSize == h.vals[3] * ElementSize(h.vals[4])
  IN [c |-> Skip(h, IF h.ok THEN totalSize ELSE 0),
      m |-> IF ~h.ok THEN m
            ELSE [m EXCEPT !.instances =
                    MapSet(@, h.vals[1],
                      PrimitiveArray(h.vals[1], h.vals[2], h.vals[4], totalSize,
                                     h.vals[3]))]]

\* parseHeapDump(): the switch on the sub-tag; an unknown sub-tag throws
IsRootTag(subTag) ==
  subTag \in {SUB_ROOT_UNKNOWN, SUB_ROOT_STICKY_CLASS, SUB_ROOT_MONITOR_USED,
              SUB_ROOT_THREAD_OBJ}

IsThreadRootTag(subTag) ==
  subTag \in {SUB_ROOT_JNI_LOCAL, SUB_ROOT_JAVA_FRAME, SUB_ROOT_NATIVE_STACK,
              SUB_ROOT_THREAD_BLOCK}

IsKnownSubTag(subTag) ==
  \/ IsRootTag(subTag)
  \/ IsThreadRootTag(subTag)
  \/ subTag \in {SUB_ROOT_JNI_GLOBAL, SUB_CLASS_DUMP, SUB_INSTANCE_DUMP,
                 SUB_OBJECT_ARRAY_DUMP, SUB_PRIMITIVE_ARRAY_DUMP}

DispatchSubRecord(d, w, p, m, subTag) ==
  CASE IsRootTag(subTag) -> ParseRoot(d, w, p, m, subTag)
    [] subTag = SUB_ROOT_JNI_GLOBAL -> ParseRootJniGlobal(d, w, p, m)
    [] IsThreadRootTag(subTag) -> ParseRootWithThread(d, w, p, m, subTag)
    [] subTag = SUB_CLASS_DUMP -> ParseClassDump(d, w, p, m)
    [] subTag = SUB_INSTANCE_DUMP -> ParseInstanceDump(d, w, p, m)
    [] subTag = SUB_OBJECT_ARRAY_DUMP -> ParseObjectArrayDump(d, w, p, m)
    [] subTag = SUB_PRIMITIVE_ARRAY_DUMP -> ParsePrimitiveArrayDump(d, w, p, m)
    [] OTHER -> [c |-> Throw(Cursor(p)), m |-> m]

\* A sub-record loop that goes on after a handler error
AfterSubRecordContinue(ok) == "heap"

\* parseHeapDump(): what follows the body of one loop iteration.  A handler
\* error is caught and leaves the loop (break); otherwise the loop condition
\* is tested again.
AfterSubRecord(ok) == IF ok THEN "heap" ELSE "loop"

\* A switch with a case for the single-shot heap dump tag only
IsHeapTagSingleShot(tg) == tg = TAG_HEAP_DUMP

\* parseRecord(): case TAGS.HEAP_DUMP / TAGS.HEAP_DUMP_SEGMENT
IsHeapTag(tg) == tg \in {TAG_HEAP_DUMP, TAG_HEAP_DUMP_SEGMENT}

\* A switch that decodes every record other than class-load as a string
DispatchEveryTag(d, w, p, m, tg, endPos) ==
  CASE tg = TAG_LOAD_CLASS -> ParseLoadClass(d, w, p, m)
    [] OTHER -> ParseString(d, w, p, endPos, m)

\* parseRecord(): the switch on the tag, for the tags handled in one call
DispatchRecord(d, w, p, m, tg, endPos) ==
  CASE tg = TAG_STRING -> ParseString(d, w, p, endPos, m)
    [] tg = TAG_LOAD_CLASS -> ParseLoadClass(d, w, p, m)
    [] OTHER -> [c |-> Cursor(endPos), m |-> m]

\* parseRecord(): const endPosition = this.position + length
RecordEnd(pos, length) == pos + length

\* A parseRecord that leaves the cursor where the handler left it
PositionLeftByHandler(handlerPos, endPos) == handlerPos

\* parseRecord(): the cursor when the record is left, whatever the handler did
\* (this.position = endPosition, after the try and in the catch)
PositionAfterRecord(handlerPos, endPos) == endPos

\* A parseRecord that lets a handler error reach the catch of parse()
AfterRecordRethrow(ok) == IF ok THEN "loop" ELSE "failed"

\* parseRecord(): a handler error is caught and logged; the record loop of
\* parse() goes on
AfterRecord(ok) == "loop"

\* A format check on 'JAVA PROFILE ' alone, whatever the version
FormatAcceptedAnyVersion(format) == StartsWith(format, SubSeq(MAGIC, 1, 13))

\* parseHeader(): the format check
FormatAccepted(format) == StartsWith(format, MAGIC)

\* parseHeader(): offset of the first zero byte at or after p, Len(d) if none
RECURSIVE FirstZero(_, _)
FirstZero(d, p) ==
  IF p >= Len(d) THEN Len(d)
  ELSE IF d[p + 1] = 0 THEN p ELSE FirstZero(d, p + 1)

\* parseHeapDump(endPosition) as a whole, from position p: the model it leaves
\* and whether it threw (a sub-tag read past the buffer); a handler error
\* leaves the loop
RECURSIVE HeapLoop(_, _, _, _, _)
HeapLoop(d, w, p, endPos, m) ==
  IF p >= endPos THEN [m |-> m, threw |-> FALSE]
  ELSE IF ~InRange(d, p, 1) THEN [m |-> m, threw |-> TRUE]
  ELSE LET r == DispatchSubRecord(d, w, p + 1, m, Uint8(d, p))
       IN IF AfterSubRecord(r.c.ok) = "heap" THEN HeapLoop(d, w, r.c.pos, endPos, r.m)
          ELSE [m |-> r.m, threw |-> FALSE]

\* parseRecord() as a whole, for the record at offset p: the cursor and the
\* model it leaves; fatal when the record header runs past the buffer
RecordEffect(d, w, p, m) ==
  IF ~InRange(d, p + 5, 4) THEN [fatal |-> TRUE, pos |-> p + 5, m |-> m]
  ELSE LET endPos == RecordEnd(p + 9, Uint32(d, p + 5))
       IN [fatal |-> FALSE,
           pos |-> PositionAfterRecord(p + 9, endPos),
           m |-> IF IsHeapTag(Uint8(d, p)) THEN HeapLoop(d, w, p + 9, endPos, m).m
                 ELSE DispatchRecord(d, w, p + 9, m, Uint8(d, p), endPos).m]

\* ---------------------------------------------------------------------------
\* Input buffers: a header followed by top-level records.  A body is a
\* preamble followed by at most MaxItems items; an item is a top-level record
\* or a heap sub-record, and a run of sub-records is framed in one heap record
\* (or one heap record each, when split).
\* ---------------------------------------------------------------------------

U16Bytes(n) == <<n \div 256, n % 256>>
U32Bytes(n) == <<n \div 16777216, (n \div 65536) % 256, (n \div 256) % 256, n % 256>>
IdBytes(w, n) == IF w = 8 THEN <<0, 0, 0, 0>> \o U32Bytes(n) ELSE U32Bytes(n)

\* tag, 4-byte time delta, 4-byte declared length, payload
RecordBytes(tg, declared, payload) == <<tg, 0, 0, 0, 0>> \o U32Bytes(declared) \o payload

TopItems == {"STR", "STR_EMPTY", "LOAD", "UNK", "SHORT", "TRUNC", "TAIL"}
SubItems == {"ROOT", "JNI", "FRAME", "CDUMP", "CDUMP_CP", "CDUMP_EMPTY", "INST",
             "OARR", "PARR", "BADSUB", "OVER"}
Items == TopItems \cup SubItems

ClassDumpBytes(w, constantPool) ==
  <<SUB_CLASS_DUMP>> \o IdBytes(w, 1) \o U32Bytes(0) \o IdBytes(w, 2) \o IdBytes(w, 3)
    \o IdBytes(w, 0) \o IdBytes(w, 0) \o IdBytes(w, 0) \o IdBytes(w, 0) \o U32Bytes(8)
    \o (IF constantPool THEN U16Bytes(1) \o U16Bytes(1) \o <<10>> \o U32Bytes(9)
        ELSE U16Bytes(0))
    \o U16Bytes(1) \o IdBytes(w, 11) \o <<10>> \o U32Bytes(42)
    \o U16Bytes(1) \o IdBytes(w, 12) \o <<2>>

\* A class definition with empty constant pool, static field and instance
\* field tables
EmptyClassDumpBytes(w) ==
  <<SUB_CLASS_DUMP>> \o IdBytes(w, 1) \o U32Bytes(0) \o IdBytes(w, 2) \o IdBytes(w, 3)
    \o IdBytes(w, 0) \o IdBytes(w, 0) \o IdBytes(w, 0) \o IdBytes(w, 0) \o U32Bytes(8)
    \o U16Bytes(0) \o U16Bytes(0) \o U16Bytes(0)

ItemBytes(item, w) ==
  CASE item = "STR" -> RecordBytes(TAG_STRING, w + 3, IdBytes(w, 7) \o <<70, 195, 169>>)
    [] item = "STR_EMPTY" -> RecordBytes(TAG_STRING, w, IdBytes(w, 7))
    [] item = "LOAD" ->
         RecordBytes(TAG_LOAD_CLASS, 8 + 2 * w,
                     U32Bytes(1) \o IdBytes(w, 1) \o U32Bytes(0) \o IdBytes(w, 7))
    [] item = "UNK" -> RecordBytes(5, 1, <<33>>)
    [] item = "SHORT" -> RecordBytes(TAG_LOAD_CLASS, 0, <<>>)
    [] item = "TRUNC" ->
         RecordBytes(TAG_HEAP_DUMP_SEGMENT, 64, <<SUB_ROOT_THREAD_OBJ>> \o IdBytes(w, 5))
    [] item = "TAIL" -> <<5, 0, 0>>
    [] item = "ROOT" -> <<SUB_ROOT_STICKY_CLASS>> \o IdBytes(w, 5)
    [] item = "JNI" ->
         <<SUB_ROOT_JNI_GLOBAL>>
           \o (IF w = 8 THEN <<0, 32, 0, 0, 0, 0, 0, 0, 0, 32, 0, 0, 0, 0, 0, 1>>
               ELSE IdBytes(w, 5) \o IdBytes(w, 9))
    [] item = "FRAME" ->
         <<SUB_ROOT_JAVA_FRAME>> \o IdBytes(w, 6) \o U32Bytes(1) \o U32Bytes(2)
    [] item = "CDUMP" -> ClassDumpBytes(w, FALSE)
    [] item = "CDUMP_CP" -> ClassDumpBytes(w, TRUE)
    [] item = "CDUMP_EMPTY" -> EmptyClassDumpBytes(w)
    [] item = "INST" ->
         <<SUB_INSTANCE_DUMP>> \o IdBytes(w, 5) \o U32Bytes(0) \o IdBytes(w, 1)
           \o U32Bytes(2) \o <<1, 2>>
    [] item = "OARR" ->
         <<SUB_OBJECT_ARRAY_DUMP>> \o IdBytes(w, 6) \o U32Bytes(0) \o U32Bytes(2)
           \o IdBytes(w, 1) \o IdBytes(w, 5) \o IdBytes(w, 6)
    [] item = "PARR" ->
         <<SUB_PRIMITIVE_ARRAY_DUMP>> \o IdBytes(w, 5) \o U32Bytes(0) \o U32Bytes(2)
           \o <<8, 1, 2>>
    [] item = "BADSUB" -> <<126, 0>>
    [] item = "OVER" ->
         <<SUB_INSTANCE_DUMP>> \o IdBytes(w, 7) \o U32Bytes(0) \o IdBytes(w, 1)
           \o U32Bytes(20)

\* Last index of the run of sub-record items that starts at i
RECURSIVE RunEnd(_, _)
RunEnd(items, i) ==
  IF i < Len(items) /\ items[i + 1] \in SubItems THEN RunEnd(items, i + 1) ELSE i

RECURSIVE ConcatItems(_, _, _, _)
ConcatItems(items, i, j, w) ==
  IF i > j THEN <<>> ELSE ItemBytes(items[i], w) \o ConcatItems(items, i + 1, j, w)

\* The longest run i..k, k <= j, whose bytes fit a payload of less than 128
\* bytes (the length field of a heap record stays a one-byte number)
RECURSIVE RunFit(_, _, _, _)
RunFit(items, i, j, w) ==
  IF j > i /\ Len(ConcatItems(items, i, j, w)) >= 128 THEN RunFit(items, i, j - 1, w)
  ELSE j

\* The first heap record of a buffer is a HEAP_DUMP, the next a
\* HEAP_DUMP_SEGMENT, and so on in turn
RECURSIVE FrameItems(_, _, _, _, _)
FrameItems(items, i, w, split, heaps) ==
  IF i > Len(items) THEN <<>>
  ELSE IF items[i] \in TopItems
       THEN ItemBytes(items[i], w) \o FrameItems(items, i + 1, w, split, heaps)
       ELSE LET j == IF split THEN i ELSE RunFit(items, i, RunEnd(items, i), w)
                payload == ConcatItems(items, i, j, w)
                tg == IF heaps % 2 = 0 THEN TAG_HEAP_DUMP ELSE TAG_HEAP_DUMP_SEGMENT
            IN RecordBytes(tg, Len(payload), payload)
                 \o FrameItems(items, j + 1, w, split, heaps + 1)

\* Headers: format name, zero byte, identifier size, timestamp
FormatGood == MAGIC \o <<46, 50>>
FormatBad == <<74, 65, 86, 65, 32, 80, 82, 79, 70, 73, 76, 69, 32, 50, 46, 48>>
HeaderBytes(format, idSize) ==
  format \o <<0>> \o U32Bytes(idSize) \o <<0, 0, 0, 1, 0, 0, 0, 2>>

Headers ==
  {<<FormatGood, 4>>, <<FormatGood, 8>>, <<FormatGood, 2>>, <<FormatBad, 4>>,
   <<<<>>, 4>>}

Preambles == {<<>>, <<"STR", "LOAD">>}

BufferOf(h, items, split) ==
  HeaderBytes(h[1], h[2]) \o FrameItems(items, 1, IF h[2] = 8 THEN 8 ELSE 4, split, 0)

\* ---------------------------------------------------------------------------
\* The parser
\* ---------------------------------------------------------------------------

VARIABLES
  data,            \* this.data: the bytes of the buffer
  position,        \* this.position
  identifierSize,  \* this.identifierSize
  timestamp,       \* this.timestamp
  strings,         \* this.strings
  classes,         \* this.classes
  instances,       \* this.instances
  roots,           \* this.roots
  pc,              \* where parse() stands
  tag,             \* parseRecord: tag of the record being parsed
  recStart,        \* parseRecord: offset of the tag byte of that record
  endPosition,     \* parseRecord: endPosition
  warnings,        \* what console.warn has logged
  idReads,         \* the readId calls of the last step: <<before, after>>
  calls,           \* the number of parse() calls made on this parser
  heapData,        \* findReferenceChains: the heapData argument
  targetObjectId,  \* findReferenceChains: the targetObjectId argument
  maxDepth,        \* findReferenceChains: the maxDepth argument
  queue,           \* findReferenceChains: queue
  visited,         \* findReferenceChains: visited
  chains,          \* findReferenceChains: chains
  fpc,             \* where findReferenceChains stands
  mounted,         \* which App is mounted: the multi-file or the single-file one
  state,           \* App: the useState values
  run              \* App.handleFileSelect: its argument, locals and position

parserVars == <<data, position, identifierSize, timestamp, strings, classes, instances,
                roots, pc, tag, recStart, endPosition, warnings, idReads, calls>>

chainVars == <<heapData, targetObjectId, maxDepth, queue, visited, chains, fpc>>

appVars == <<mounted, state, run>>

vars == <<parserVars, chainVars, appVars>>

tables == <<strings, classes, instances, roots>>

Model == [strings |-> strings, classes |-> classes, instances |-> instances,
          roots |-> roots]

SetModel(m) ==
  /\ strings' = m.strings
  /\ classes' = m.classes
  /\ instances' = m.instances
  /\ roots' = m.roots

\* constructor()
Constructed ==
  /\ data = <<>>
  /\ position = 0
  /\ identifierSize = 0
  /\ timestamp = Undef
  /\ strings = <<>>
  /\ classes = <<>>
  /\ instances = <<>>
  /\ roots = <<>>
  /\ pc = "idle"
  /\ tag = 0
  /\ recStart = 0
  /\ endPosition = 0
  /\ warnings = <<>>
  /\ idReads = <<>>
  /\ calls = 0

\* No call of findReferenceChains has been made
ChainsIdle ==
  /\ targetObjectId = <<0, 0>>
  /\ maxDepth = 0
  /\ queue = <<>>
  /\ visited = {}
  /\ chains = <<>>
  /\ fpc = "idle"

\* App(): the useState initial values of the multi-file App
MultiInitial ==
  [loading |-> FALSE, error |-> Undef, heapDumps |-> <<>>, selectedFileIndex |-> 0,
   activeTab |-> "histogram"]

\* App(): the useState initial values of the single-file App
SingleInitial ==
  [loading |-> FALSE, error |-> Undef, heapData |-> Undef, histogram |-> Undef,
   dominatorTree |-> Undef, leakSuspects |-> Undef, leakInsights |-> Undef,
   activeTab |-> "histogram", fileName |-> ""]

NotRunning == [pc |-> "idle", files |-> <<>>, i |-> 0, processedFiles |-> <<>>]

\* No App is mounted
AppIdle == mounted = "none" /\ state = MultiInitial /\ run = NotRunning

Init == Constructed /\ heapData = EmptyModel /\ ChainsIdle /\ AppIdle

\* parse(buffer): this.data = new DataView(buffer); this.position = 0
Parse ==
  /\ pc = "idle"
  /\ \E h \in Headers, pre \in Preambles, n \in 0..MaxItems, split \in BOOLEAN :
       \E its \in [1..n -> Items] :
         data' = BufferOf(h, pre \o its, split)
  /\ position' = 0
  /\ pc' = "header"
  /\ calls' = calls + 1
  /\ UNCHANGED <<identifierSize, timestamp, tables, tag, recStart, endPosition,
                 warnings, idReads>>
  /\ UNCHANGED <<chainVars, appVars>>

\* parseHeader(), and the catch of parse() when it throws
ParseHeader ==
  /\ pc = "header"
  /\ LET z == FirstZero(data, position)
         format == SubSeq(data, position + 1, z)
         sized == InRange(data, z + 1, 4)
         stamped == InRange(data, z + 5, 8)
     IN /\ identifierSize' =
             IF z < Len(data) /\ FormatAccepted(format) /\ sized
             THEN Uint32(data, z + 1) ELSE identifierSize
        /\ IF z < Len(data) /\ FormatAccepted(format) /\ sized /\ stamped
           THEN /\ timestamp' = Some(JsCombine(Uint32(data, z + 5), Uint32(data, z + 9)))
                /\ position' = z + 13
                /\ pc' = "loop"
           ELSE /\ timestamp' = timestamp
                /\ position' = IF z < Len(data) /\ FormatAccepted(format)
                               THEN z + 1 + (IF sized THEN 4 ELSE 0) ELSE z + 1
                /\ pc' = "failed"
  /\ idReads' = <<>>
  /\ UNCHANGED <<data, tables, tag, recStart, endPosition, warnings, calls>>
  /\ UNCHANGED <<chainVars, appVars>>

\* parseRecord(): the 9-byte record header, then the handler of a string,
\* class-load or unhandled record, or the entry into parseHeapDump().  A
\* record header that runs past the buffer throws outside the try: parse() fails.
ParseRecord ==
  /\ pc = "loop"
  /\ position < Len(data)
  /\ IF ~InRange(data, position + 5, 4)
     THEN /\ pc' = "failed"
          /\ position' = position + 5
          /\ tag' = Uint8(data, position)
          /\ recStart' = position
          /\ idReads' = <<>>
          /\ UNCHANGED <<tables, endPosition, warnings>>
     ELSE LET tg == Uint8(data, position)
              length == Uint32(data, position + 5)
              endPos == RecordEnd(position + 9, length)
              r == DispatchRecord(data, identifierSize, position + 9, Model, tg, endPos)
          IN /\ tag' = tg
             /\ recStart' = position
             /\ endPosition' = endPos
             /\ IF IsHeapTag(tg)
                THEN /\ pc' = "heap"
                     /\ position' = position + 9
                     /\ idReads' = <<>>
                     /\ UNCHANGED <<tables, warnings>>
                ELSE /\ pc' = AfterRecord(r.c.ok)
                     /\ position' = PositionAfterRecord(r.c.pos, endPos)
                     /\ idReads' = r.c.ids
                     /\ SetModel(r.m)
                     /\ warnings' = IF r.c.ok THEN warnings
                                    ELSE Append(warnings, [scope |-> "record", tag |-> tg])
  /\ UNCHANGED <<data, identifierSize, timestamp, calls>>
  /\ UNCHANGED <<chainVars, appVars>>

\* parseHeapDump(): one iteration of the sub-record loop.  Reading the sub-tag
\* past the buffer throws outside the inner try, into the catch of
\* parseRecord(); a handler error is caught, logged, and leaves the loop.
\* Leaving parseHeapDump() in either way returns through the end of
\* parseRecord().
HeapSubRecord ==
  /\ pc = "heap"
  /\ position < endPosition
  /\ LET subTag == Uint8(data, position)
         r == DispatchSubRecord(data, identifierSize, position + 1, Model, subTag)
     IN IF ~InRange(data, position, 1)
        THEN /\ pc' = AfterRecord(FALSE)
             /\ position' = PositionAfterRecord(position + 1, endPosition)
             /\ idReads' = <<>>
             /\ warnings' = Append(warnings, [scope |-> "record", tag |-> tag])
             /\ UNCHANGED tables
        ELSE /\ pc' = AfterSubRecord(r.c.ok)
             /\ position' = IF AfterSubRecord(r.c.ok) = "heap" THEN r.c.pos
                            ELSE PositionAfterRecord(r.c.pos, endPosition)
             /\ idReads' = r.c.ids
             /\ SetModel(r.m)
             /\ warnings' = IF r.c.ok THEN warnings
                            ELSE Append(warnings, [scope |-> "sub", tag |-> subTag])
  /\ UNCHANGED <<data, identifierSize, timestamp, tag, recStart, endPosition, calls>>
  /\ UNCHANGED <<chainVars, appVars>>

\* parseHeapDump(): the loop condition fails; parseRecord() ends
HeapDumpEnd ==
  /\ pc = "heap"
  /\ position >= endPosition
  /\ pc' = "loop"
  /\ position' = PositionAfterRecord(position, endPosition)
  /\ idReads' = <<>>
  /\ UNCHANGED <<data, identifierSize, timestamp, tables, tag, recStart, endPosition,
                 warnings, calls>>
  /\ UNCHANGED <<chainVars, appVars>>

\* parse(): the record loop ends, the tables are returned
Return ==
  /\ pc = "loop"
  /\ position >= Len(data)
  /\ pc' = "done"
  /\ idReads' = <<>>
  /\ UNCHANGED <<data, position, identifierSize, timestamp, tables, tag, recStart,
                 endPosition, warnings, calls>>
  /\ UNCHANGED <<chainVars, appVars>>

Next ==
  \/ Parse
  \/ ParseHeader
  \/ ParseRecord
  \/ HeapSubRecord
  \/ HeapDumpEnd
  \/ Return

Spec == Init /\ [][Next]_vars

\* A parser that has returned or thrown is given a buffer again: parse(buffer)
\* sets this.data and this.position, and nothing else.  The buffer is the one
\* of the call before or a header without records.
MaxCalls == 2

ParseAgain ==
  /\ pc \in {"done", "failed"}
  /\ calls < MaxCalls
  /\ data' \in {data, BufferOf(<<FormatGood, 4>>, <<>>, FALSE)}
  /\ position' = 0
  /\ pc' = "header"
  /\ calls' = calls + 1
  /\ UNCHANGED <<identifierSize, timestamp, tables, tag, recStart, endPosition,
                 warnings, idReads>>
  /\ UNCHANGED <<chainVars, appVars>>

NextReused == Next \/ ParseAgain

SpecReused == Init /\ [][NextReused]_vars

\* ---------------------------------------------------------------------------
\* What the buffer says, read off its bytes
\* ---------------------------------------------------------------------------

\* The format name at the start of the buffer, and the offset after its zero
FormatName == SubSeq(data, 1, FirstZero(data, 0))
HeaderOffset == FirstZero(data, 0) + 1

MagicRecognized == FirstZero(data, 0) < Len(data) /\ StartsWith(FormatName, MAGIC)

\* The header is complete: identifier size and timestamp are in the buffer
HeaderComplete == MagicRecognized /\ InRange(data, HeaderOffset, 12)

\* The four bytes of the identifier size field
WidthBytes == SubSeq(data, HeaderOffset + 1, HeaderOffset + 4)

ValidHeader == HeaderComplete /\ WidthBytes \in {<<0, 0, 0, 4>>, <<0, 0, 0, 8>>}

\* The declared end of the record whose tag byte is at offset p
DeclaredEnd(p) == p + 9 + Uint32(data, p + 5)

IsKnownTag(tg) == tg \in {TAG_STRING, TAG_LOAD_CLASS, TAG_HEAP_DUMP, TAG_HEAP_DUMP_SEGMENT}

\* The buffer without the bytes at offsets from .. to - 1
Cut(d, from, to) == SubSeq(d, 1, from) \o SubSeq(d, to + 1, Len(d))

\* The step logs a warning of the given scope
Warns(scope) ==
  /\ Len(warnings') = Len(warnings) + 1
  /\ warnings'[Len(warnings')].scope = scope

\* ---------------------------------------------------------------------------
\* Record framing
\* ---------------------------------------------------------------------------

\* C1: whenever parseRecord returns, for a record of any tag and whatever its
\* handler did (consumed too few or too many bytes, threw), the cursor is at
\* the record's end offset: the offset of its tag byte + 9 + its declared
\* length.
C1_CursorAtRecordEnd ==
  [][/\ (pc = "loop" /\ pc' = "heap") => recStart' = position
     /\ (pc = "loop" /\ pc' = "loop") => position' = DeclaredEnd(position)
     /\ (pc = "heap" /\ pc' = "loop") => position' = DeclaredEnd(recStart)]_vars

\* With 4-byte identifiers, a class-load record whose handler threw has been
\* left at its declared end, with more of the buffer to come
C1_Witness ==
  /\ pc = "loop"
  /\ identifierSize = 4
  /\ tag = TAG_LOAD_CLASS
  /\ warnings # <<>>
  /\ position = DeclaredEnd(recStart)
  /\ position < Len(data)

\* C2: a record with an unrecognized tag whose declared length L lies inside
\* the buffer moves the cursor to its start + 9 + L and adds nothing to the
\* strings, classes, instances or roots; and the record that follows is
\* decoded into the same model as it is with the unrecognized record cut out
\* of the buffer.
C2_UnknownRecordSkipped ==
  [][(/\ pc = "loop"
      /\ position < Len(data)
      /\ InRange(data, position + 5, 4)
      /\ ~IsKnownTag(Uint8(data, position))
      /\ DeclaredEnd(position) <= Len(data))
     => /\ pc' = "loop"
        /\ position' = DeclaredEnd(position)
        /\ UNCHANGED <<tables, warnings>>
        /\ LET with == RecordEffect(data, identifierSize, position', Model')
               without == RecordEffect(Cut(data, position, DeclaredEnd(position)),
                                       identifierSize, position, Model)
           IN position' < Len(data) =>
                /\ with.fatal = without.fatal
                /\ with.m = without.m
                /\ with.fatal \/ with.pos - without.pos = DeclaredEnd(position) - position]_vars

\* An unrecognized record has been skipped after the preamble, and a record
\* follows it
C2_Witness ==
  /\ pc = "loop"
  /\ ~IsKnownTag(tag)
  /\ recStart > HeaderOffset + 12
  /\ position = DeclaredEnd(recStart)
  /\ position < Len(data)
  /\ classes # <<>>

\* C3: when the handler of a known top-level record throws (a string or
\* class-load handler, parseHeapDump itself, or one of its sub-record
\* handlers), the error is caught and logged within parseRecord: parse does
\* not fail, nothing of the model is lost, and the record loop goes on from
\* the failed record's end offset.
C3_HandlerErrorRecovered ==
  [][(Warns("record") \/ Warns("sub"))
     => /\ pc' = "loop"
        /\ IsKnownTag(tag')
        /\ position' = DeclaredEnd(recStart')
        /\ UNCHANGED tables]_vars

\* With a valid identifier size, a string record has been decoded after an
\* earlier record's handler threw
C3_Witness ==
  /\ pc = "loop"
  /\ identifierSize = 4
  /\ warnings # <<>>
  /\ warnings[1].scope = "record"
  /\ tag = TAG_STRING
  /\ Len(warnings) = 1
  /\ strings # <<>>
  /\ recStart > HeaderOffset + 12

\* C4: an unrecognized sub-tag in a heap record ends the decoding of that
\* payload: the model keeps what the earlier sub-records put in it and gets
\* nothing more from this payload, and the scan goes on with the top-level
\* record at the payload's end offset.
C4_UnknownSubTagAbandonsPayload ==
  [][(/\ pc = "heap"
      /\ position < endPosition
      /\ InRange(data, position, 1)
      /\ ~IsKnownSubTag(Uint8(data, position)))
     => /\ pc' = "loop"
        /\ position' = DeclaredEnd(recStart)
        /\ endPosition = DeclaredEnd(recStart)
        /\ UNCHANGED tables]_vars

\* An unrecognized sub-tag was met after a root had been decoded, before the
\* end of the payload
C4_Witness ==
  /\ pc = "loop"
  /\ warnings # <<>>
  /\ warnings[Len(warnings)].scope = "sub"
  /\ ~IsKnownSubTag(warnings[Len(warnings)].tag)
  /\ roots # <<>>
  /\ position = DeclaredEnd(recStart)

\* ---------------------------------------------------------------------------
\* Header
\* ---------------------------------------------------------------------------

\* C5: when the format name at the start of the buffer does not begin with
\* 'JAVA PROFILE 1.0', parse fails whatever follows: no record is dispatched
\* and no model is returned.
C5_BadMagicIsFatal ==
  (pc # "idle" /\ ~MagicRecognized)
    => /\ pc \in {"header", "failed"}
       /\ Model = EmptyModel
       /\ warnings = <<>>

\* parse has failed on a buffer with another format name and records after
\* the header
C5_Witness ==
  /\ pc = "failed"
  /\ FirstZero(data, 0) = Len(MAGIC)
  /\ ~MagicRecognized
  /\ Len(data) > HeaderOffset + 12

\* C6: when the identifier size of the header is neither 4 nor 8, parse fails
\* and returns no model.
C6_BadIdentifierSizeIsFatal ==
  (HeaderComplete /\ WidthBytes \notin {<<0, 0, 0, 4>>, <<0, 0, 0, 8>>})
    => pc # "done"

\* C7: after a valid header (recognized format name, identifier size field 4
\* or 8) the identifier size is the one of the header, 4 or 8, for the rest
\* of the pass, and every readId call that returns has moved the cursor by
\* exactly that many bytes.
C7_IdentifierWidthFixed ==
  (ValidHeader /\ pc \in {"loop", "heap", "done", "failed"})
    => /\ identifierSize \in {4, 8}
       /\ <<0, 0, 0, identifierSize>> = WidthBytes
       /\ \A i \in 1..Len(idReads) : idReads[i][2] - idReads[i][1] = identifierSize

\* With 8-byte identifiers, a step has read several identifiers
C7_Witness ==
  /\ ValidHeader
  /\ identifierSize = 8
  /\ Len(idReads) >= 3
  /\ pc = "heap"

\* ---------------------------------------------------------------------------
\* The class table
\* ---------------------------------------------------------------------------

\* The class id of the sub-record whose sub-tag is at offset p
SubRecordId(p) == IdValue(data, identifierSize, p + 1)

\* C8: a class-definition sub-record for a class that a class-load
\* announcement created keeps the name resolved at the announcement and the
\* instance ids collected since, and gives the class the super-class id,
\* class-loader id, instance size, static fields and instance field
\* descriptors of the definition.
C8_ClassDumpMergesIntoLoadedClass ==
  [][(/\ pc = "heap"
      /\ position < endPosition
      /\ InRange(data, position, 1 + 7 * identifierSize + 8)
      /\ Uint8(data, position) = SUB_CLASS_DUMP
      /\ identifierSize \in {4, 8}
      /\ MapHas(classes, SubRecordId(position))
      /\ MapGet(classes, SubRecordId(position)).classNameId # Undef
      /\ pc' = "heap")
     => LET old == MapGet(classes, SubRecordId(position))
            new == MapGet(classes', SubRecordId(position))
            w == identifierSize
        IN /\ MapKeys(classes') = MapKeys(classes)
           /\ new.name = old.name
           /\ new.instances = old.instances
           /\ new.classNameId = old.classNameId
           /\ new.superClassObjectId = Some(IdValue(data, w, position + 1 + w + 4))
           /\ new.classLoaderObjectId = Some(IdValue(data, w, position + 1 + 2 * w + 4))
           /\ new.instanceSize = Some(Uint32(data, position + 1 + 7 * w + 4))
           /\ new.staticFields # Undef
           /\ new.instanceFields # Undef
           /\ Len(new.instanceFields[1]) =
                Uint16(data, position' - 2 - (w + 1) * Len(new.instanceFields[1]))
           /\ \A i \in 1..Len(new.instanceFields[1]) :
                LET at == position' - (w + 1) * (Len(new.instanceFields[1]) - i + 1)
                IN new.instanceFields[1][i] =
                     [nameId |-> IdValue(data, w, at), type |-> Uint8(data, at + w)]
           /\ LET table == position + 1 + 7 * w + 8
              IN (Uint16(data, table) = 0 /\ Uint16(data, table + 2) = 1
                    /\ Uint8(data, table + 4 + w) = 10)
                   => new.staticFields =
                        Some(<<<<IdValue(data, w, table + 4),
                                 [type |-> 10,
                                  value |-> Uint32(data, table + 5 + w)]>>>>)]_vars

\* Class 1, announced under the name of string 7, holds instance 5 and has
\* got the attributes of its definition
C8_Witness ==
  /\ MapHas(classes, <<0, 1>>)
  /\ MapHas(strings, <<0, 7>>)
  /\ MapGet(classes, <<0, 1>>).name = MapGet(strings, <<0, 7>>)
  /\ MapGet(classes, <<0, 1>>).name # <<>>
  /\ MapGet(classes, <<0, 1>>).instances = <<<<0, 5>>>>
  /\ MapGet(classes, <<0, 1>>).superClassObjectId = Some(<<0, 2>>)
  /\ MapGet(classes, <<0, 1>>).instanceSize = Some(8)
  /\ MapGet(classes, <<0, 1>>).staticFields =
       Some(<<<<<<0, 11>>, [type |-> 10, value |-> 42]>>>>)
  /\ MapGet(classes, <<0, 1>>).instanceFields = Some(<<[nameId |-> <<0, 12>>, type |-> 2]>>)

\* C9: a class-load announcement naming string id s gets the text that the
\* string table holds for s as its name, whatever the text, and a placeholder
\* name, without an error, when the table holds no text for s.
C9_ClassNameResolved ==
  [][(/\ pc = "loop"
      /\ position < Len(data)
      /\ identifierSize \in {4, 8}
      /\ InRange(data, position, 9 + 8 + 2 * identifierSize)
      /\ Uint8(data, position) = TAG_LOAD_CLASS)
     => LET w == identifierSize
            cid == IdValue(data, w, position + 9 + 4)
            s == IdValue(data, w, position + 9 + 8 + w)
        IN /\ UNCHANGED warnings
           /\ MapHas(classes', cid)
           /\ MapHas(strings, s) => MapGet(classes', cid).name = MapGet(strings, s)
           /\ ~MapHas(strings, s) =>
                MapGet(classes', cid).name = CLASS_HASH \o NumberToString(s)]_vars

\* ---------------------------------------------------------------------------
\* The instance table
\* ---------------------------------------------------------------------------

\* C10: an instance-data sub-record that lies inside the buffer and whose
\* class id is not in the class table raises no error: the instance is stored
\* under its object id with that class id and its byte count as size, the
\* class table is left as it is, and the sub-record loop goes on.
C10_OrphanInstanceStored ==
  [][(/\ pc = "heap"
      /\ position < endPosition
      /\ identifierSize \in {4, 8}
      /\ InRange(data, position, 1 + 2 * identifierSize + 8)
      /\ Uint8(data, position) = SUB_INSTANCE_DUMP
      /\ InRange(data, position, 1 + 2 * identifierSize + 8
                                   + Uint32(data, position + 1 + 2 * identifierSize + 4))
      /\ ~MapHas(classes, IdValue(data, identifierSize, position + 1 + identifierSize + 4)))
     => LET w == identifierSize
            oid == IdValue(data, w, position + 1)
            cid == IdValue(data, w, position + 1 + w + 4)
            numBytes == Uint32(data, position + 1 + 2 * w + 4)
        IN /\ UNCHANGED <<warnings, classes, strings, roots>>
           /\ pc' = "heap"
           /\ position' = position + 1 + 2 * w + 8 + numBytes
           /\ MapHas(instances', oid)
           /\ MapGet(instances', oid).objectId = oid
           /\ MapGet(instances', oid).classObjectId = Some(cid)
           /\ MapGet(instances', oid).size = numBytes
           /\ \A k \in MapKeys(instances) \ {oid} :
                MapHas(instances', k) /\ MapGet(instances', k) = MapGet(instances, k)]_vars

\* Instance 5 of class 1 is in the instance table, no class is, and the
\* sub-record after it has been decoded
C10_Witness ==
  /\ MapHas(instances, <<0, 5>>)
  /\ MapGet(instances, <<0, 5>>).classObjectId = Some(<<0, 1>>)
  /\ MapGet(instances, <<0, 5>>).size = 2
  /\ classes = <<>>
  /\ warnings = <<>>
  /\ roots # <<>>
  /\ pc = "heap"

\* ---------------------------------------------------------------------------
\* The analysers that report on the returned heap data
\* ---------------------------------------------------------------------------

\* 'Unknown' as char codes
UNKNOWN == <<85, 110, 107, 110, 111, 119, 110>>

\* getTopObjectsBySize(heapData, limit = 20)
TOP_LIMIT == 20

\* classes.get(instance.classObjectId)?.name || 'Unknown'
ReportedClassName(cls, classObjectId) ==
  IF classObjectId # Undef /\ MapHas(cls, classObjectId[1])
       /\ MapGet(cls, classObjectId[1]).name # <<>>
  THEN MapGet(cls, classObjectId[1]).name
  ELSE UNKNOWN

\* formatChain(): the entry of one object id of the chain
FormatChainEntry(m, objectId) ==
  IF ~MapHas(m.instances, objectId)
  THEN [objectId |-> objectId, className |-> UNKNOWN, size |-> Undef]
  ELSE [objectId |-> objectId,
        className |-> ReportedClassName(m.classes, MapGet(m.instances, objectId).classObjectId),
        size |-> Some(MapGet(m.instances, objectId).size)]

\* formatted.reduce((sum, item) => sum + item.size, 0): NaN once an entry has
\* no size
RECURSIVE SumSizes(_, _)
SumSizes(formatted, i) ==
  IF i > Len(formatted) THEN Some(0)
  ELSE LET rest == SumSizes(formatted, i + 1)
       IN IF formatted[i].size = Undef \/ rest = Undef THEN Undef
          ELSE Some(formatted[i].size[1] + rest[1])

\* formatChain(chain, heapData); totalSize is Undef where the code yields NaN
FormatChain(chain, m) ==
  LET formatted == [i \in 1..Len(chain) |-> FormatChainEntry(m, chain[i])]
  IN [chain |-> formatted, depth |-> Len(chain), totalSize |-> SumSizes(formatted, 1)]

\* getTopObjectsBySize(): the entry pushed for one entry of the instance table
TopObject(m, objectId, instance) ==
  [objectId |-> objectId,
   className |-> ReportedClassName(m.classes, instance.classObjectId),
   size |-> instance.size,
   type |-> IF instance.type = Undef THEN "instance" ELSE instance.type[1]]

\* objects.sort((a, b) => b.size - a.size): a stable sort, largest first
RECURSIVE InsertBySize(_, _)
InsertBySize(sorted, o) ==
  IF sorted = <<>> THEN <<o>>
  ELSE IF sorted[Len(sorted)].size >= o.size THEN Append(sorted, o)
  ELSE Append(InsertBySize(SubSeq(sorted, 1, Len(sorted) - 1), o), sorted[Len(sorted)])

RECURSIVE SortBySize(_, _)
SortBySize(objects, n) ==
  IF n = 0 THEN <<>> ELSE InsertBySize(SortBySize(objects, n - 1), objects[n])

\* getTopObjectsBySize(heapData, limit)
GetTopObjectsBySize(m, limit) ==
  LET objects == [i \in 1..Len(m.instances) |->
                    TopObject(m, m.instances[i][1], m.instances[i][2])]
      sorted == SortBySize(objects, Len(objects))
  IN SubSeq(sorted, 1, IF Len(sorted) < limit THEN Len(sorted) ELSE limit)

\* The entries of the instance table whose class id is not in the class table
Orphans == {i \in 1..Len(instances) :
              /\ instances[i][2].classObjectId # Undef
              /\ ~MapHas(classes, instances[i][2].classObjectId[1])}

\* C11: in the heap data that parse returns, an instance whose class id was
\* never declared is reported with the class name Class#<id>, <id> being that
\* class id, by formatChain (reference chains) and by getTopObjectsBySize.
C11_OrphanReportedWithPlaceholder ==
  pc = "done" =>
    \A i \in Orphans :
      LET oid == instances[i][1]
          placeholder == CLASS_HASH \o NumberToString(instances[i][2].classObjectId[1])
          top == GetTopObjectsBySize(Model, TOP_LIMIT)
      IN /\ FormatChain(<<oid>>, Model).chain[1].className = placeholder
         /\ \A k \in 1..Len(top) : top[k].objectId = oid => top[k].className = placeholder

\* ---------------------------------------------------------------------------
\* Arrays and roots
\* ---------------------------------------------------------------------------

\* C12: an object-array sub-record that declares N elements and lies inside
\* the buffer stores, under the array id, an entry with exactly the N element
\* ids of the stream, in order, each read with the identifier size of the
\* file, and with size N * identifier size; the cursor moves over the sub-tag,
\* 2 identifiers, 8 bytes and N identifiers.
C12_ObjectArrayElements ==
  [][(/\ pc = "heap"
      /\ position < endPosition
      /\ identifierSize \in {4, 8}
      /\ InRange(data, position, 1 + 2 * identifierSize + 8)
      /\ Uint8(data, position) = SUB_OBJECT_ARRAY_DUMP
      /\ Uint32(data, position + 1 + identifierSize + 4) <= Len(data)
      /\ InRange(data, position,
                 1 + 2 * identifierSize + 8
                   + Uint32(data, position + 1 + identifierSize + 4) * identifierSize))
     => LET w == identifierSize
            oid == IdValue(data, w, position + 1)
            N == Uint32(data, position + 1 + w + 4)
            first == position + 1 + 2 * w + 8
        IN /\ UNCHANGED <<warnings, classes, strings, roots>>
           /\ pc' = "heap"
           /\ position' = first + N * w
           /\ MapHas(instances', oid)
           /\ MapGet(instances', oid).type = Some("objectArray")
           /\ MapGet(instances', oid).classObjectId = Some(IdValue(data, w, position + 1 + w + 8))
           /\ MapGet(instances', oid).size = N * w
           /\ MapGet(instances', oid).elements =
                Some([i \in 1..N |-> IdValue(data, w, first + (i - 1) * w)])
           /\ Len(idReads') = 2 + N
           /\ \A i \in 1..N : idReads'[2 + i] = <<first + (i - 1) * w, first + i * w>>]_vars

\* With 8-byte identifiers, array 6 holds the two element ids 5 and 6 and has
\* size 16
C12_Witness ==
  /\ identifierSize = 8
  /\ pc = "heap"
  /\ MapHas(instances, <<0, 6>>)
  /\ MapGet(instances, <<0, 6>>).elements = Some(<<<<0, 5>>, <<0, 6>>>>)
  /\ MapGet(instances, <<0, 6>>).size = 16
  /\ Len(idReads) = 4

\* The sub-tag at the cursor is one of the root kinds
AtRootSubRecord ==
  /\ pc = "heap"
  /\ position < endPosition
  /\ InRange(data, position, 1)
  /\ \/ IsRootTag(Uint8(data, position))
     \/ IsThreadRootTag(Uint8(data, position))
     \/ Uint8(data, position) = SUB_ROOT_JNI_GLOBAL

\* C13: the root list only grows at its end.  A step leaves it as it is or
\* appends one entry; a root sub-record that is decoded without an error
\* appends an entry of its sub-tag and object id, whether or not the list
\* already holds that object id; no step removes or reorders an entry.
C13_RootsAppendOnly ==
  [][/\ \/ roots' = roots
        \/ /\ AtRootSubRecord
           /\ Len(roots') = Len(roots) + 1
           /\ SubSeq(roots', 1, Len(roots)) = roots
     /\ (AtRootSubRecord /\ pc' = "heap")
          => /\ Len(roots') = Len(roots) + 1
             /\ roots'[Len(roots')].type = Uint8(data, position)
             /\ roots'[Len(roots')].objectId = IdValue(data, identifierSize, position + 1)]_vars

\* The same object id has been decoded as a root in two segments and is in
\* the list twice
C13_Witness ==
  /\ Len(roots) = 2
  /\ roots[1].objectId = roots[2].objectId
  /\ roots[1].type = roots[2].type
  /\ tag = TAG_HEAP_DUMP_SEGMENT
  /\ recStart > HeaderOffset + 12
  /\ pc = "done"

\* ---------------------------------------------------------------------------
\* The result of parse
\* ---------------------------------------------------------------------------

\* parse(): the object returned to the caller
Result ==
  [strings |-> strings, classes |-> classes, instances |-> instances, roots |-> roots,
   identifierSize |-> identifierSize]

\* The warnings a caller finds in the result: none when it has no such field
ResultWarnings == IF "warnings" \in DOMAIN Result THEN Result.warnings ELSE <<>>

\* C14: every recoverable condition met during a parse (a handler error in a
\* top-level record, a sub-record error or unrecognized sub-tag that abandons
\* a heap payload) is in the result that parse returns, as a warning next to
\* the model: the result of a parse that met one tells it from a parse that
\* met none.
C14_WarningsReturned ==
  pc = "done" => Len(ResultWarnings) = Len(warnings)

\* ---------------------------------------------------------------------------
\* Heap dump segments
\* ---------------------------------------------------------------------------

\* The offsets of the sub-tags that parseHeapDump(endPos) reads from offset p
\* on, and whether the payload is well formed: every sub-record is decoded
\* without an error and the last one ends at endPos
RECURSIVE HeapStarts(_, _, _, _, _)
HeapStarts(d, w, p, endPos, m) ==
  IF p >= endPos THEN [starts |-> <<>>, ok |-> p = endPos]
  ELSE IF ~InRange(d, p, 1) THEN [starts |-> <<>>, ok |-> FALSE]
  ELSE LET r == DispatchSubRecord(d, w, p + 1, m, Uint8(d, p))
       IN IF ~r.c.ok THEN [starts |-> <<p>>, ok |-> FALSE]
          ELSE [starts |-> <<p>> \o HeapStarts(d, w, r.c.pos, endPos, r.m).starts,
                ok |-> HeapStarts(d, w, r.c.pos, endPos, r.m).ok]

\* The buffer d with the tag of the record at offset p replaced
WithTag(d, p, tg) == [d EXCEPT ![p + 1] = tg]

\* The buffer d with the heap record at offset p, which ends at endPos, cut
\* at offset b into two records of tags t1 and t2
SplitAt(d, p, endPos, b, t1, t2) ==
  SubSeq(d, 1, p)
    \o RecordBytes(t1, b - (p + 9), SubSeq(d, p + 10, b))
    \o RecordBytes(t2, endPos - b, SubSeq(d, b + 1, endPos))
    \o SubSeq(d, endPos + 1, Len(d))

\* parseRecord() twice: the record at offset p and the one after it
TwoRecordsEffect(d, w, p, m) ==
  RecordEffect(d, w, RecordEffect(d, w, p, m).pos, RecordEffect(d, w, p, m).m)

\* The cursor is at a heap record with a well-formed payload inside the buffer
AtWellFormedHeapRecord ==
  /\ pc = "loop"
  /\ position < Len(data)
  /\ InRange(data, position + 5, 4)
  /\ IsHeapTag(Uint8(data, position))
  /\ identifierSize \in {4, 8}
  /\ DeclaredEnd(position) <= Len(data)
  /\ HeapStarts(data, identifierSize, position + 9, DeclaredEnd(position), Model).ok

\* The steps of the parser compute what parseRecord() and parseHeapDump() as
\* a whole compute
StepsAgreeWithRecordEffect ==
  /\ (pc = "loop" /\ pc' = "loop" /\ position < Len(data))
       => /\ Model' = RecordEffect(data, identifierSize, position, Model).m
          /\ position' = RecordEffect(data, identifierSize, position, Model).pos
  /\ (pc = "loop" /\ pc' = "heap")
       => HeapLoop(data, identifierSize, position', endPosition', Model').m
            = RecordEffect(data, identifierSize, position, Model).m
  /\ (pc = "heap" /\ pc' = "heap")
       => HeapLoop(data, identifierSize, position', endPosition, Model').m
            = HeapLoop(data, identifierSize, position, endPosition, Model).m
  /\ (pc = "heap" /\ pc' = "loop")
       => Model' = HeapLoop(data, identifierSize, position, endPosition, Model).m

\* C15: a heap record of tag 0x0c and one of tag 0x1c are decoded alike, and
\* segments concatenate: a well-formed run of sub-records in one heap record
\* gives the same model as the same run cut at any sub-record boundary into
\* two consecutive segment records.
C15_SegmentsConcatenate ==
  [][/\ StepsAgreeWithRecordEffect
     /\ AtWellFormedHeapRecord
          => LET w == identifierSize
                 endPos == DeclaredEnd(position)
                 whole == RecordEffect(data, w, position, Model)
                 starts == HeapStarts(data, w, position + 9, endPos, Model).starts
             IN /\ RecordEffect(WithTag(data, position, TAG_HEAP_DUMP), w, position, Model)
                     = whole
                /\ RecordEffect(WithTag(data, position, TAG_HEAP_DUMP_SEGMENT), w,
                                position, Model) = whole
                /\ \A i \in 2..Len(starts) :
                     LET cut == SplitAt(data, position, endPos, starts[i],
                                        TAG_HEAP_DUMP_SEGMENT, TAG_HEAP_DUMP_SEGMENT)
                     IN /\ ~TwoRecordsEffect(cut, w, position, Model).fatal
                        /\ TwoRecordsEffect(cut, w, position, Model).m = whole.m
                        /\ TwoRecordsEffect(cut, w, position, Model).pos = whole.pos + 9]_vars

\* A single-shot heap record that holds a class definition and an instance of
\* that class, with a boundary between them, has been decoded
C15_Witness ==
  /\ pc = "loop"
  /\ tag = TAG_HEAP_DUMP
  /\ warnings = <<>>
  /\ position = DeclaredEnd(recStart)
  /\ Len(HeapStarts(data, identifierSize, recStart + 9, position, EmptyModel).starts) = 2
  /\ Len(classes) = 1
  /\ classes[1][2].instances # <<>>
  /\ Len(instances) = 1

\* ---------------------------------------------------------------------------
\* Lifetime of the entries
\* ---------------------------------------------------------------------------

\* Every entry of the table t is in t' as it was
Kept(t, tNext) ==
  \A k \in MapKeys(t) : MapHas(tNext, k) /\ MapGet(tNext, k) = MapGet(t, k)

\* C16: an entry of the instance table (instance, object array, primitive
\* array) or of the string table, once stored under its id, is never
\* replaced, changed or deleted by a later record of the pass.
C16_EntriesImmutable ==
  [][Kept(instances, instances') /\ Kept(strings, strings')]_vars

\* ---------------------------------------------------------------------------
\* Identifiers and typed values
\* ---------------------------------------------------------------------------

\* The bytes that the i-th readId call of the step has read
IdPattern(i) == SubSeq(data, idReads[i][1] + 1, idReads[i][2])

\* C17: with identifier size 8, identifiers are decoded without loss: two
\* readId calls that read different 8-byte patterns return different values.
C17_WideIdsDistinct ==
  identifierSize = 8 =>
    \A i, j \in 1..Len(idReads) :
      IdPattern(i) # IdPattern(j)
        => IdValue(data, 8, idReads[i][1]) # IdValue(data, 8, idReads[j][1])

\* ---------------------------------------------------------------------------
\* Class records, once more
\* ---------------------------------------------------------------------------

\* C18: a class-load announcement for a class id that is in the class table
\* updates the record it finds: the fields that the announcement writes get
\* its values, and the fields it does not write (the instance ids collected so
\* far, the super-class id, class-loader id and instance size of the
\* definition) stay as they were.
C18_LoadClassUpdatesRecord ==
  [][(/\ pc = "loop"
      /\ position < Len(data)
      /\ identifierSize \in {4, 8}
      /\ InRange(data, position, 9 + 8 + 2 * identifierSize)
      /\ Uint8(data, position) = TAG_LOAD_CLASS
      /\ MapHas(classes, IdValue(data, identifierSize, position + 9 + 4)))
     => LET w == identifierSize
            cid == IdValue(data, w, position + 9 + 4)
            old == MapGet(classes, cid)
            new == MapGet(classes', cid)
        IN /\ MapKeys(classes') = MapKeys(classes)
           /\ new.serialNum = Some(Uint32(data, position + 9))
           /\ new.classNameId = Some(IdValue(data, w, position + 9 + 8 + w))
           /\ new.instances = old.instances
           /\ new.superClassObjectId = old.superClassObjectId
           /\ new.classLoaderObjectId = old.classLoaderObjectId
           /\ new.instanceSize = old.instanceSize]_vars

\* ---------------------------------------------------------------------------
\* The constant pool and the typed values
\* ---------------------------------------------------------------------------

\* The type tags that readValue decodes
ScalarTypes == {2, 4, 5, 6, 7, 8, 9, 10, 11}

\* The offset of the constant pool count in the class-definition sub-record
\* whose sub-tag is at offset p: the sub-tag, seven ids and two 32-bit words
\* precede it
ConstantPoolOffset(w, p) == p + 1 + 7 * w + 8

\* The offset right after n constant pool entries that start at offset q, an
\* entry being a 2-byte index, a type tag and a value as readValue decodes it
\* for that tag; -1 when an entry is cut by the end of the buffer or has a tag
\* that readValue does not decode
RECURSIVE ConstantPoolEnd(_, _, _, _)
ConstantPoolEnd(d, w, q, n) ==
  IF n = 0 THEN q
  ELSE IF ~InRange(d, q, 3) \/ Uint8(d, q + 2) \notin ScalarTypes THEN -1
  ELSE IF ~ReadValue(d, w, Uint8(d, q + 2), Cursor(q + 3)).ok THEN -1
  ELSE ConstantPoolEnd(d, w, ReadValue(d, w, Uint8(d, q + 2), Cursor(q + 3)).pos, n - 1)

\* The parser is at a class-definition sub-record whose constant pool has
\* entries, all of them whole and of a scalar type
AtClassDumpWithConstantPool ==
  /\ pc = "heap"
  /\ position < endPosition
  /\ identifierSize \in {4, 8}
  /\ InRange(data, position, 1 + 7 * identifierSize + 8 + 2)
  /\ Uint8(data, position) = SUB_CLASS_DUMP
  /\ Uint16(data, ConstantPoolOffset(identifierSize, position)) >= 1
  /\ ConstantPoolEnd(data, identifierSize,
                     ConstantPoolOffset(identifierSize, position) + 2,
                     Uint16(data, ConstantPoolOffset(identifierSize, position))) >= 0

\* C19: in a class-definition sub-record each constant pool entry advances the
\* cursor by 2 (index) + 1 (type tag) + the width of a value of that tag, an
\* object reference having the identifier width, so that the static field
\* count is read at the offset right after the last constant pool value.
C19_ConstantPoolAdvance ==
  AtClassDumpWithConstantPool
    => SkipConstantPoolTable(data, identifierSize,
                             Cursor(ConstantPoolOffset(identifierSize, position))).pos
         = ConstantPoolEnd(data, identifierSize,
                           ConstantPoolOffset(identifierSize, position) + 2,
                           Uint16(data, ConstantPoolOffset(identifierSize, position)))

\* The end of the value whose type tag is at offset q, at the constant pool
\* site: this.position += 1 for the tag, then skipValue()
SkippedValueEnd(d, w, q) == SkipValue(d, w, Skip(Cursor(q), 1))

\* The same at the static field site: the tag is read, then readValue(type)
DecodedValueEnd(d, w, q) == ReadValue(d, w, Uint8(d, q), ReadUint8(d, Cursor(q)))

\* C20: for a type tag followed by a value, skipping the value as the constant
\* pool does and decoding it as the static fields do end at the same offset
\* when the tag is a scalar tag (object, boolean, char, float, double, byte,
\* short, int, long), and an unrecognized tag is an error at both sites or at
\* neither.
C20_SkipAndDecodeAgree ==
  identifierSize \in {4, 8} =>
    \A q \in 0..(Len(data) - 10) :
      /\ Uint8(data, q) \in ScalarTypes
           => SkippedValueEnd(data, identifierSize, q).pos
                = DecodedValueEnd(data, identifierSize, q).pos
      /\ Uint8(data, q) \notin ScalarTypes
           => SkippedValueEnd(data, identifierSize, q).ok
                = DecodedValueEnd(data, identifierSize, q).ok

\* ---------------------------------------------------------------------------
\* The fixed part of a class definition
\* ---------------------------------------------------------------------------

\* The parser is at a class-definition sub-record that has n identifiers in
\* its fixed part and whose three table counts, read after them, are zero
AtEmptyClassDump(n) ==
  /\ pc = "heap"
  /\ position < endPosition
  /\ identifierSize \in {4, 8}
  /\ InRange(data, position, 1 + n * identifierSize + 8 + 6)
  /\ Uint8(data, position) = SUB_CLASS_DUMP
  /\ SubSeq(data, position + 1 + n * identifierSize + 8 + 1,
            position + 1 + n * identifierSize + 8 + 6) = <<0, 0, 0, 0, 0, 0>>

\* C21 (as stated): the fixed part of a class definition is the class id, a
\* 4-byte serial, the super-class id, the class-loader id, two reserved ids
\* and the 4-byte instance size: a definition with empty tables advances the
\* cursor by 5 identifiers + 4 + 4 + 3 x 2 bytes after the sub-tag.
C21_FiveIdentifiers ==
  [][(pc = "heap" /\ position < endPosition /\ identifierSize \in {4, 8}
        /\ InRange(data, position, 1) /\ Uint8(data, position) = SUB_CLASS_DUMP
        /\ pc' = "heap" /\ MapHas(classes', SubRecordId(position))
        /\ MapGet(classes', SubRecordId(position)).staticFields = Some(<<>>)
        /\ MapGet(classes', SubRecordId(position)).instanceFields = Some(<<>>)
        /\ AtEmptyClassDump(7))
       => position' = position + 1 + 5 * identifierSize + 4 + 4 + 3 * 2]_vars

\* C21 (amended): the fixed part has seven identifiers (class, super class,
\* class loader, signers, protection domain and two reserved ones): a
\* definition with empty tables is decoded without an error, advances the
\* cursor by 7 identifiers + 4 + 4 + 3 x 2 bytes after the sub-tag, and takes
\* the super-class id, class-loader id and instance size from the 2nd and 3rd
\* identifier and the last 4 bytes of the fixed part.
C21_ClassDumpFixedPart ==
  [][AtEmptyClassDump(7)
       => /\ pc' = "heap"
          /\ position' = position + 1 + 7 * identifierSize + 4 + 4 + 3 * 2
          /\ MapHas(classes', SubRecordId(position))
          /\ MapGet(classes', SubRecordId(position)).superClassObjectId
               = Some(IdValue(data, identifierSize, position + 1 + identifierSize + 4))
          /\ MapGet(classes', SubRecordId(position)).classLoaderObjectId
               = Some(IdValue(data, identifierSize, position + 1 + 2 * identifierSize + 4))
          /\ MapGet(classes', SubRecordId(position)).instanceSize
               = Some(Uint32(data, position + 1 + 7 * identifierSize + 4))
          /\ MapGet(classes', SubRecordId(position)).staticFields = Some(<<>>)
          /\ MapGet(classes', SubRecordId(position)).instanceFields = Some(<<>>)]_vars

\* A class definition with empty tables has been decoded with 8-byte
\* identifiers, and the sub-record loop goes on behind it
C21_Witness ==
  /\ pc = "heap"
  /\ identifierSize = 8
  /\ position = endPosition
  /\ Len(idReads) = 7
  /\ MapHas(classes, <<0, 1>>)
  /\ MapGet(classes, <<0, 1>>).staticFields = Some(<<>>)
  /\ MapGet(classes, <<0, 1>>).instanceFields = Some(<<>>)
  /\ MapGet(classes, <<0, 1>>).instanceSize = Some(8)

\* ---------------------------------------------------------------------------
\* The payload window, progress and the outcome of parse
\* ---------------------------------------------------------------------------

\* C22: the heap sub-record decoder stays inside the payload window of its
\* heap record: after a sub-record handler has returned, the cursor is not
\* beyond the record's end offset, and no identifier it has read ends beyond
\* that offset.
C22_SubRecordsInsideWindow ==
  pc = "heap"
    => /\ position <= endPosition
       /\ \A i \in 1..Len(idReads) : idReads[i][2] <= endPosition

\* C23: parse makes forward progress only.  A step that leaves a record (back
\* in the record loop) has the cursor at least 9 bytes behind the tag byte of
\* that record; a step of the sub-record loop that stays in the loop
\* increases the cursor; and no step of the scan moves the cursor backwards.
C23_ForwardProgress ==
  [][/\ (pc \in {"loop", "heap"} /\ pc' = "loop") => position' >= recStart' + 9
     /\ (pc = "heap" /\ pc' = "heap") => position' > position
     /\ (pc \in {"header", "loop", "heap"}) => position' >= position]_vars

\* C24: the only fatal outcomes of parse are an unrecognized magic prefix and
\* an unsupported identifier width: on a buffer that starts with a valid
\* header parse does not fail, whatever follows the header.
C24_OnlyHeaderIsFatal ==
  ValidHeader => pc # "failed"

\* ---------------------------------------------------------------------------
\* A parser used twice
\* ---------------------------------------------------------------------------

\* The record loop of parse() as a whole, from offset p: the model it leaves,
\* and whether a record header past the buffer ended it
RECURSIVE ParseRecords(_, _, _, _)
ParseRecords(d, w, p, m) ==
  IF p >= Len(d) THEN [fatal |-> FALSE, m |-> m]
  ELSE IF RecordEffect(d, w, p, m).fatal THEN [fatal |-> TRUE, m |-> m]
  ELSE ParseRecords(d, w, RecordEffect(d, w, p, m).pos, RecordEffect(d, w, p, m).m)

\* What a parser just constructed returns for the buffer of this call
FreshResult == ParseRecords(data, identifierSize, HeaderOffset + 12, EmptyModel).m

\* C25: the model returned by parse depends only on the buffer of that call:
\* whenever parse returns, on a parser just constructed or on one that has
\* parsed before, the tables are those a parser just constructed returns for
\* that buffer.
C25_ResultDependsOnBufferOnly ==
  pc = "done" => Model = FreshResult

\* ---------------------------------------------------------------------------
\* Instance lists and sizes
\* ---------------------------------------------------------------------------

\* C26: in a model returned by parse, each object id in the instance list of
\* a class occurs there once and is the key of an entry of the instance table
\* whose class id is the id of that class.
C26_InstanceListsConsistent ==
  pc = "done" =>
    \A k \in 1..Len(classes) :
      \A i \in 1..Len(classes[k][2].instances) :
        /\ \A j \in 1..Len(classes[k][2].instances) :
             classes[k][2].instances[j] = classes[k][2].instances[i] => j = i
        /\ MapHas(instances, classes[k][2].instances[i])
        /\ MapGet(instances, classes[k][2].instances[i]).classObjectId
             = Some(classes[k][1])

\* calculateDominatorTree(): the inner loop over classInfo.instances from
\* index i on; every key of the instance table is in reachableObjects, so an
\* id counts when the instance table has it
RECURSIVE RetainedFrom(_, _, _, _)
RetainedFrom(m, ids, i, acc) ==
  IF i > Len(ids) THEN acc
  ELSE IF MapHas(m.instances, ids[i])
       THEN RetainedFrom(m, ids, i + 1,
              [retainedSize |-> acc.retainedSize + MapGet(m.instances, ids[i]).size,
               instanceCount |-> acc.instanceCount + 1])
       ELSE RetainedFrom(m, ids, i + 1, acc)

\* calculateDominatorTree(): the entry of one class; averageSize is kept as
\* the pair it is the quotient of
DominatorEntry(m, classId, classInfo) ==
  LET r == RetainedFrom(m, classInfo.instances, 1, [retainedSize |-> 0, instanceCount |-> 0])
  IN [className |-> classInfo.name, classId |-> classId,
      retainedSize |-> r.retainedSize, instanceCount |-> r.instanceCount,
      averageSize |-> <<r.retainedSize, r.instanceCount>>]

\* calculateDominatorTree(): retainedByClass after the first k classes; an
\* entry is set under the class name when the class has counted instances
RECURSIVE RetainedByClass(_, _)
RetainedByClass(m, k) ==
  IF k = 0 THEN <<>>
  ELSE IF DominatorEntry(m, m.classes[k][1], m.classes[k][2]).instanceCount > 0
       THEN MapSet(RetainedByClass(m, k - 1), m.classes[k][2].name,
                   DominatorEntry(m, m.classes[k][1], m.classes[k][2]))
       ELSE RetainedByClass(m, k - 1)

\* result.sort((a, b) => b.retainedSize - a.retainedSize): a stable sort
RECURSIVE InsertByRetained(_, _)
InsertByRetained(sorted, e) ==
  IF sorted = <<>> THEN <<e>>
  ELSE IF sorted[Len(sorted)].retainedSize >= e.retainedSize THEN Append(sorted, e)
  ELSE Append(InsertByRetained(SubSeq(sorted, 1, Len(sorted) - 1), e),
              sorted[Len(sorted)])

RECURSIVE SortByRetained(_, _)
SortByRetained(byClass, n) ==
  IF n = 0 THEN <<>>
  ELSE InsertByRetained(SortByRetained(byClass, n - 1), byClass[n][2])

\* calculateDominatorTree(heapData)
CalculateDominatorTree(m) ==
  SortByRetained(RetainedByClass(m, Len(m.classes)), Len(RetainedByClass(m, Len(m.classes))))

\* getTotalHeapSize(heapData): the sizes of the first n entries of the
\* instance table
RECURSIVE TotalHeapSize(_, _)
TotalHeapSize(m, n) ==
  IF n = 0 THEN 0 ELSE TotalHeapSize(m, n - 1) + m.instances[n][2].size

GetTotalHeapSize(m) == TotalHeapSize(m, Len(m.instances))

\* The sum of the retained sizes of the first n entries of a dominator tree
RECURSIVE SumRetained(_, _)
SumRetained(tree, n) ==
  IF n = 0 THEN 0 ELSE SumRetained(tree, n - 1) + tree[n].retainedSize

\* The entries of the instance table that name the class id as their class
OwnedBy(m, classId) ==
  {i \in 1..Len(m.instances) : m.instances[i][2].classObjectId = Some(classId)}

\* C27: size accounting never double counts: for a model returned by parse,
\* the per-class totals of calculateDominatorTree sum to at most the total of
\* getTotalHeapSize, and the instanceCount of each class is at most the
\* number of entries of the instance table owned by that class.
C27_NoDoubleCounting ==
  pc = "done" =>
    /\ SumRetained(CalculateDominatorTree(Model), Len(CalculateDominatorTree(Model)))
         <= GetTotalHeapSize(Model)
    /\ \A i \in 1..Len(CalculateDominatorTree(Model)) :
         CalculateDominatorTree(Model)[i].instanceCount
           <= Cardinality(OwnedBy(Model, CalculateDominatorTree(Model)[i].classId))

\* ---------------------------------------------------------------------------
\* findReferenceChains
\* ---------------------------------------------------------------------------

\* while (queue.length > 0 && chains.length < 10)
MAX_CHAINS == 10

\* roots.some(r => r.objectId === currentId)
IsRoot(m, id) == \E i \in 1..Len(m.roots) : m.roots[i].objectId = id

\* The entry of the instance table is an object array with id among its elements
HoldsElement(entry, id) ==
  /\ entry[2].type = Some("objectArray")
  /\ entry[2].elements # Undef
  /\ \E j \in 1..Len(entry[2].elements[1]) : entry[2].elements[1][j] = id

\* buildReverseReferenceMap(heapData).get(id) || []: the object arrays that
\* hold id, in the order of the instance table; the id 0 is never entered
ReverseRefs(m, id) ==
  IF id = <<0, 0>> THEN <<>>
  ELSE [i \in 1..Len(SelectSeq(m.instances, LAMBDA e : HoldsElement(e, id))) |->
          SelectSeq(m.instances, LAMBDA e : HoldsElement(e, id))[i][1]]

\* chain.includes(refId)
Includes(chain, id) == \E i \in 1..Len(chain) : chain[i] = id

\* queue.push([...chain, refId]) for the referencers that the chain does not
\* include
Extensions(chain, refs) ==
  [i \in 1..Len(SelectSeq(refs, LAMBDA r : ~Includes(chain, r))) |->
     Append(chain, SelectSeq(refs, LAMBDA r : ~Includes(chain, r))[i])]

\* A depth test that lets every chain pass
ChainNeverTooLong(chain, depth) == FALSE

\* chain.length > maxDepth
ChainTooLong(chain, depth) == Len(chain) > depth

\* Heaps given to findReferenceChains: object 1 is an instance, objects 2 and
\* 3 are object arrays of at most MaxElements elements among the ids 0..3, the
\* roots are any of the objects 1..3
MaxElements == 2

NodeId(n) == <<0, n>>

ElementLists ==
  {el \in UNION {[1..k -> 0..3] : k \in 0..MaxElements} :
     \A i, j \in 1..Len(el) : i < j => el[i] < el[j]}

ArrayOf(n, el) ==
  <<NodeId(n), ObjectArray(NodeId(n), NodeId(9), 0, 4 * Len(el),
                           [i \in 1..Len(el) |-> NodeId(el[i])])>>

RootLists == {<<>>, <<1>>, <<2>>, <<3>>, <<2, 3>>, <<3, 3>>, <<1, 2, 3>>}

GraphHeap(el2, el3, rts) ==
  [strings |-> <<>>, classes |-> <<>>,
   instances |-> <<<<NodeId(1), Instance(NodeId(1), NodeId(9), 0, 2, <<1, 2>>)>>,
                   ArrayOf(2, el2), ArrayOf(3, el3)>>,
   roots |-> [i \in 1..Len(rts) |->
                Root(SUB_ROOT_STICKY_CLASS, NodeId(rts[i]), Undef, Undef, Undef)]]

\* Object 1 held by MAX_CHAINS + 1 object arrays that are all roots
StarHeap ==
  [strings |-> <<>>, classes |-> <<>>,
   instances |-> [i \in 1..(MAX_CHAINS + 1) |-> ArrayOf(i + 1, <<1>>)],
   roots |-> [i \in 1..(MAX_CHAINS + 1) |->
                Root(SUB_ROOT_STICKY_CLASS, NodeId(i + 1), Undef, Undef, Undef)]]

ChainHeaps ==
  {GraphHeap(el2, el3, rts) : el2 \in ElementLists, el3 \in ElementLists, rts \in RootLists}
    \cup {StarHeap}

InitChains == Constructed /\ heapData \in ChainHeaps /\ ChainsIdle /\ AppIdle

\* findReferenceChains(heapData, targetObjectId, maxDepth): up to the loop
FindReferenceChains ==
  /\ fpc = "idle"
  /\ \E t \in 0..2, d \in 1..3 :
       /\ targetObjectId' = NodeId(t)
       /\ maxDepth' = d
       /\ queue' = <<<<NodeId(t)>>>>
  /\ visited' = {}
  /\ chains' = <<>>
  /\ fpc' = "bfs"
  /\ UNCHANGED <<heapData, parserVars, appVars>>

\* One iteration of the while loop
ChainStep ==
  /\ fpc = "bfs"
  /\ Len(queue) > 0 /\ Len(chains) < MAX_CHAINS
  /\ LET chain == Head(queue)
         currentId == chain[Len(chain)]
     IN IF currentId \in visited \/ ChainTooLong(chain, maxDepth)
        THEN /\ queue' = Tail(queue)
             /\ UNCHANGED <<visited, chains>>
        ELSE /\ visited' = visited \cup {currentId}
             /\ IF IsRoot(heapData, currentId)
                THEN /\ chains' = Append(chains, chain)
                     /\ queue' = Tail(queue)
                ELSE /\ chains' = chains
                     /\ queue' = Tail(queue)
                                   \o Extensions(chain, ReverseRefs(heapData, currentId))
  /\ UNCHANGED <<heapData, targetObjectId, maxDepth, fpc, parserVars, appVars>>

\* The loop ends: return chains.map(chain => formatChain(chain, heapData))
ChainReturn ==
  /\ fpc = "bfs"
  /\ ~(Len(queue) > 0 /\ Len(chains) < MAX_CHAINS)
  /\ fpc' = "returned"
  /\ UNCHANGED <<heapData, targetObjectId, maxDepth, queue, visited, chains, parserVars,
                 appVars>>

ReturnedChains == [i \in 1..Len(chains) |-> FormatChain(chains[i], heapData)]

NextChains == FindReferenceChains \/ ChainStep \/ ChainReturn

SpecChains == InitChains /\ [][NextChains]_vars

\* The object ids of the instance table, and the ids not visited yet
ObjectIds == {heapData.instances[i][1] : i \in 1..Len(heapData.instances)}

\* The ids of a chain of at most k elements from an id of S: the objects
\* reached by going k - 1 times to an object array that holds the object
RECURSIVE ReachedWithin(_, _)
ReachedWithin(S, k) ==
  IF k <= 1 THEN S
  ELSE ReachedWithin(S \cup {heapData.instances[i][1] :
                               i \in {j \in 1..Len(heapData.instances) :
                                        \E id \in S : HoldsElement(heapData.instances[j], id)}},
                     k - 1)

\* A returned chain is as it has to be
GoodChain(chain) ==
  /\ Len(chain) >= 1 /\ Len(chain) <= maxDepth
  /\ chain[1] = targetObjectId
  /\ IsRoot(heapData, chain[Len(chain)])
  /\ \A i, j \in 1..Len(chain) : chain[i] = chain[j] => i = j
  /\ \A i \in 2..Len(chain) :
       /\ MapHas(heapData.instances, chain[i])
       /\ HoldsElement(<<chain[i], MapGet(heapData.instances, chain[i])>>, chain[i - 1])

\* What is returned: at most 10 chains, all of them good, formatted with
\* their ids in place
GoodResult ==
  /\ Len(ReturnedChains) = Len(chains)
  /\ Len(chains) <= MAX_CHAINS
  /\ \A i \in 1..Len(chains) :
       /\ GoodChain(chains[i])
       /\ ReturnedChains[i].depth = Len(chains[i])
       /\ \A j \in 1..Len(chains[i]) : ReturnedChains[i].chain[j].objectId = chains[i][j]

\* A chain of at most maxDepth elements from the target to a root exists
ChainExists == \E id \in ReachedWithin({targetObjectId}, maxDepth) : IsRoot(heapData, id)

\* Every iteration visits a new object or shortens the queue with nothing
\* new visited: the loop ends
LoopProgress ==
  (fpc = "bfs" /\ fpc' = "bfs")
    => \/ visited \subseteq visited' /\ visited' # visited /\ visited' \subseteq ObjectIds \cup {targetObjectId}
       \/ visited' = visited /\ Len(queue') < Len(queue)

MaxFiles == 2

Outcomes == {"ok", "read", "parse", "analysis"}

FileLists ==
  UNION {{[i \in 1..n |-> [name |-> i, outcome |-> o[i]]] : o \in [1..n -> Outcomes]} :
           n \in 1..MaxFiles}

\* err.message of what the failing step throws
ErrorMessage(outcome) ==
  CASE outcome = "read" -> "The file could not be read"
    [] outcome = "parse" -> "Failed to parse heap dump"
    [] OTHER -> "Cannot read properties of undefined"

\* processedFiles.push({fileName, heapData, histogram, dominatorTree,
\* leakSuspects, leakInsights, uploadedAt}); the data are tagged by the file
AnalysedEntry(file) ==
  [fileName |-> file.name, error |-> Undef,
   heapData |-> Some(<<"parsedData", file.name>>),
   histogram |-> Some(<<"histogramData", file.name>>),
   dominatorTree |-> Some(<<"dominatorTreeData", file.name>>),
   leakSuspects |-> Some(<<"suspects", file.name>>),
   leakInsights |-> Some(<<"insights", file.name>>)]

\* processedFiles.push({fileName, error: err.message, uploadedAt})
FailedEntry(file) ==
  [fileName |-> file.name, error |-> Some(ErrorMessage(file.outcome)),
   heapData |-> Undef, histogram |-> Undef, dominatorTree |-> Undef,
   leakSuspects |-> Undef, leakInsights |-> Undef]

\* A loop that is left at the first file that fails
IndexLeavingLoop(i, n) == n

\* The inner catch pushes the entry and the for loop goes on with i + 1
IndexAfterError(i, n) == i + 1

\* currentFile?.heapData || null (selectedFileIndex counts from 0), and
\* heapData of the single-file App
HeapDataShown ==
  IF mounted = "single" THEN state.heapData
  ELSE IF state.selectedFileIndex < Len(state.heapDumps)
       THEN state.heapDumps[state.selectedFileIndex + 1].heapData
       ELSE Undef

\* {!loading && !heapData && !error && <FileUpload .../>}
FileUploadRendered ==
  ~state.loading /\ HeapDataShown = Undef /\ state.error = Undef

\* {heapData && <button onClick={handleReset} ...>}
ResetRendered == HeapDataShown # Undef

InitApp ==
  /\ Constructed /\ heapData = EmptyModel /\ ChainsIdle
  /\ mounted \in {"multi", "single"}
  /\ state = (IF mounted = "multi" THEN MultiInitial ELSE SingleInitial)
  /\ run = NotRunning

\* Multi-file App, handleFileSelect(files) up to the for loop
HandleFileSelect ==
  /\ mounted = "multi"
  /\ run.pc = "idle"
  /\ FileUploadRendered
  /\ \E files \in FileLists :
       run' = [pc |-> "loop", files |-> files, i |-> 0, processedFiles |-> <<>>]
  /\ state' = [state EXCEPT !.loading = TRUE, !.error = Undef]
  /\ UNCHANGED <<mounted, parserVars, chainVars>>

\* One iteration of the for loop: the inner try and its catch
ProcessFile ==
  /\ mounted = "multi"
  /\ run.pc = "loop"
  /\ run.i < Len(run.files)
  /\ LET file == run.files[run.i + 1]
     IN IF file.outcome = "ok"
        THEN run' = [run EXCEPT !.processedFiles = Append(@, AnalysedEntry(file)),
                                !.i = @ + 1]
        ELSE run' = [run EXCEPT !.processedFiles = Append(@, FailedEntry(file)),
                                !.i = IndexAfterError(@, Len(run.files))]
  /\ UNCHANGED <<mounted, state, parserVars, chainVars>>

\* After the loop: setHeapDumps, setSelectedFileIndex(0), setLoading(false),
\* setActiveTab
FilesDone ==
  /\ mounted = "multi"
  /\ run.pc = "loop"
  /\ run.i >= Len(run.files)
  /\ state' = [state EXCEPT !.heapDumps = run.processedFiles,
                            !.selectedFileIndex = 0,
                            !.loading = FALSE,
                            !.activeTab = IF Len(run.processedFiles) > 1
                                          THEN "consolidated" ELSE "histogram"]
  /\ run' = [run EXCEPT !.pc = "idle"]
  /\ UNCHANGED <<mounted, parserVars, chainVars>>

\* The file selector: setSelectedFileIndex(Number(e.target.value))
SelectFile ==
  /\ mounted = "multi"
  /\ ~state.loading /\ Len(state.heapDumps) > 1
  /\ \E k \in 0..(Len(state.heapDumps) - 1) :
       state' = [state EXCEPT !.selectedFileIndex = k]
  /\ UNCHANGED <<mounted, run, parserVars, chainVars>>

\* The tab buttons of the analysis view: setActiveTab(...)
SetActiveTab ==
  /\ mounted = "multi"
  /\ ~state.loading /\ Len(state.heapDumps) > 0
  /\ \E tab \in {"consolidated", "histogram", "dominator", "leaks"} :
       /\ tab = "consolidated" => Len(state.heapDumps) > 1
       /\ state' = [state EXCEPT !.activeTab = tab]
  /\ UNCHANGED <<mounted, run, parserVars, chainVars>>

\* Multi-file App, handleReset()
HandleReset ==
  /\ mounted = "multi"
  /\ ResetRendered
  /\ state' = [state EXCEPT !.heapDumps = <<>>, !.selectedFileIndex = 0, !.error = Undef]
  /\ UNCHANGED <<mounted, run, parserVars, chainVars>>

\* Single-file App, handleFileSelect(file) up to the try
SingleHandleFileSelect ==
  /\ mounted = "single"
  /\ run.pc = "idle"
  /\ FileUploadRendered
  /\ \E o \in Outcomes :
       run' = [pc |-> "try", files |-> <<[name |-> 1, outcome |-> o]>>, i |-> 0,
               processedFiles |-> <<>>]
  /\ state' = [state EXCEPT !.loading = TRUE, !.error = Undef, !.fileName = "1"]
  /\ UNCHANGED <<mounted, parserVars, chainVars>>

\* Single-file App, the try block and its catch: the analyses are set one by
\* one; a failing analysis is the third one
SingleFileDone ==
  /\ mounted = "single"
  /\ run.pc = "try"
  /\ LET file == run.files[1]
     IN state' =
          IF file.outcome = "ok"
          THEN [state EXCEPT !.histogram = AnalysedEntry(file).histogram,
                             !.dominatorTree = AnalysedEntry(file).dominatorTree,
                             !.leakSuspects = AnalysedEntry(file).leakSuspects,
                             !.leakInsights = AnalysedEntry(file).leakInsights,
                             !.heapData = AnalysedEntry(file).heapData,
                             !.loading = FALSE,
                             !.activeTab = "histogram"]
          ELSE IF file.outcome = "analysis"
          THEN [state EXCEPT !.histogram = AnalysedEntry(file).histogram,
                             !.dominatorTree = AnalysedEntry(file).dominatorTree,
                             !.error = Some(<<"Failed to process heap dump: ",
                                              ErrorMessage(file.outcome)>>),
                             !.loading = FALSE]
          ELSE [state EXCEPT !.error = Some(<<"Failed to process heap dump: ",
                                              ErrorMessage(file.outcome)>>),
                             !.loading = FALSE]
  /\ run' = NotRunning
  /\ UNCHANGED <<mounted, parserVars, chainVars>>

\* Single-file App, the tab buttons of the analysis view
SingleSetActiveTab ==
  /\ mounted = "single"
  /\ ~state.loading /\ state.heapData # Undef
  /\ \E tab \in {"histogram", "dominator", "leaks"} :
       state' = [state EXCEPT !.activeTab = tab]
  /\ UNCHANGED <<mounted, run, parserVars, chainVars>>

\* Single-file App, handleReset()
SingleHandleReset ==
  /\ mounted = "single"
  /\ ResetRendered
  /\ state' = [SingleInitial EXCEPT !.activeTab = state.activeTab,
                                    !.loading = state.loading]
  /\ UNCHANGED <<mounted, run, parserVars, chainVars>>

NextApp ==
  \/ HandleFileSelect
  \/ ProcessFile
  \/ FilesDone
  \/ SelectFile
  \/ SetActiveTab
  \/ HandleReset
  \/ SingleHandleFileSelect
  \/ SingleFileDone
  \/ SingleSetActiveTab
  \/ SingleHandleReset

SpecApp == InitApp /\ [][NextApp]_vars

\* C29: in the multi-file upload flow a file whose read, parse or analysis
\* throws does not stop the batch: when the flow completes, heapDumps holds
\* one entry per selected file in selection order, the entry of a failed file
\* carries its error message and no analysis data, the entries of the other
\* files carry their full analysis, loading is false and selectedFileIndex
\* is 0.
C29_BatchSurvivesFailures ==
  [][(mounted = "multi" /\ run.pc = "loop" /\ run'.pc = "idle")
       => /\ Len(state'.heapDumps) = Len(run.files)
          /\ \A k \in 1..Len(run.files) :
               /\ state'.heapDumps[k].fileName = run.files[k].name
               /\ run.files[k].outcome # "ok"
                    => /\ state'.heapDumps[k].error = Some(ErrorMessage(run.files[k].outcome))
                       /\ state'.heapDumps[k].heapData = Undef
                       /\ state'.heapDumps[k].histogram = Undef
                       /\ state'.heapDumps[k].dominatorTree = Undef
                       /\ state'.heapDumps[k].leakSuspects = Undef
                       /\ state'.heapDumps[k].leakInsights = Undef
               /\ run.files[k].outcome = "ok"
                    => state'.heapDumps[k] = AnalysedEntry(run.files[k])
          /\ state'.loading = FALSE
          /\ state'.selectedFileIndex = 0
          /\ state'.error = Undef]_vars

\* A batch of two files has completed whose first file failed to parse and
\* whose second file was analysed
C29_Witness ==
  /\ mounted = "multi"
  /\ run.pc = "idle"
  /\ ~state.loading
  /\ Len(state.heapDumps) = 2
  /\ state.heapDumps[1].error = Some("Failed to parse heap dump")
  /\ state.heapDumps[2].error = Undef
  /\ state.heapDumps[2].heapData # Undef
  /\ state.selectedFileIndex = 0

\* C30: the application never gets stuck: in every reachable state of App in
\* which loading has finished, a new upload can be started: the file-upload
\* control is rendered, or the reset button that leads back to it.
C30_NeverStuck ==
  (mounted \in {"multi", "single"} /\ ~state.loading)
    => (FileUploadRendered \/ ResetRendered)

====
